---- MODULE Spec2Model ----
(***************************************************************************)
(* SmartInspect Node.js client: the transport core of src/src/protocol.js  *)
(* (TcpProtocol, sync mode) and the backlog PacketQueue, on the Node.js    *)
(* event loop.  One action is one run-to-completion job of the event loop: *)
(* a call made by the application, one microtask (the continuation of an   *)
(* await), or one socket/timer event.  Microtasks run in FIFO order and    *)
(* socket/timer events are delivered only when the microtask queue is      *)
(* empty.                                                                  *)
(***************************************************************************)
EXTENDS Integers, Sequences, FiniteSets, TLC

\* ------------------------------------------------------------------ bounds
MaxCalls == 4       \* calls the application makes (connect/writePacket/disconnect)
MaxSockets == 2     \* sockets created by _internalConnect
MaxTime == 2        \* the clock stops advancing here
MaxFaults == 1
MaxQueueOps == 6
MaxSQOps == 6
MaxSchedOps == 5
MaxAsyncOps == 4       \* calls made on a protocol in async mode
MaxAccountOps == 3     \* operations on each of the two queues driven together
MaxThrottleOps == 19   \* calls made on a throttling Scheduler
MaxBigWrites == 2      \* of them, scheduleAsync calls with a large packet
MaxBatchOps == 18      \* connect timers that fire, plus connections the peer closes

\* --------------------------------------------------------- program constants
LevelMessage == 2
LevelError == 4
LevelControl == 6
OVERHEAD == 24
BasePacketSize == 64
DefaultBacklogKB == 2048
ActionConnect == 0
ActionWritePacket == 1
ActionDisconnect == 2
ActionDispatch == 3
SQ_OVERHEAD == 24
BUFFER_SIZE == 16

NoLevel == -1                         \* a packet without a level field
NoPacket == [id |-> 0, level |-> NoLevel, len |-> 0]
WriteLevels == {NoLevel, LevelError}  \* levels the application submits
Intervals == {0, 1}                   \* reconnectInterval settings explored

\* _handleClient: handshakeComplete = false, buffer = Buffer.alloc(0), and the
\* server's list of packets, empty after construction
NoClient == [handshakeComplete |-> FALSE, buffer |-> <<>>, packets |-> <<>>]
\* nothing written to the socket yet; joined: the chunk that carried the end of
\* the client banner carried bytes of a frame as well
NothingSent == [banner |-> FALSE, records |-> <<>>, pending |-> <<>>,
                joined |-> FALSE]

VARIABLES
    cfg,          \* constructor options (fixed after construction)
    connected,    \* this.connected
    failed,       \* this._failed
    socket,       \* this.socket: index into socks, 0 = null
    queue,        \* this._queue: the PacketQueue
    tickCount,    \* this._reconnectTickCount
    socks,        \* every net.Socket created so far, with its closure state
    tasks,        \* per application call: stack of suspended async frames
    mq,           \* the microtask queue
    crashed,      \* an exception escaped an event handler
    now,          \* Date.now()
    calls,        \* history: the calls made by the application
    rejected,     \* history: calls whose promise was rejected
    faults,       \* history: connect timers fired and connections closed by the peer
    ran,          \* history: the event loop has run a job after the first call block
    qh,           \* history of a PacketQueue driven directly: records pushed and removed
    sched,        \* this._scheduler: the Scheduler's fields and its SchedulerQueue
    exec,         \* the Scheduler's suspended async functions
    slog,         \* history: commands scheduled, trimmed and handed to the protocol
    onErrors,     \* history: the number of calls of the onError observer
    server,       \* MockSmartInspectServer: one client's closure and the packets
    sent          \* the records formatted and the bytes still in flight

vars == <<cfg, connected, failed, socket, queue, tickCount, socks, tasks, mq,
          crashed, now, calls, rejected, faults, ran, qh, sched, exec, slog,
          onErrors, server, sent>>

\* ------------------------------------------------------------- PacketQueue
\* hook: onPacketDropped is set; dropped: the counts it has been called with
EmptyQueue(cap) == [items |-> <<>>, size |-> 0, count |-> 0, backlog |-> cap,
                    hook |-> FALSE, dropped |-> <<>>]

\* PacketQueue._getPacketSize
_getPacketSize(p) == BasePacketSize + p.len

\* pop that unlinks the newest record instead of the oldest
pop_Newest(q) ==
    IF q.items = <<>> THEN q
    ELSE [q EXCEPT !.items = SubSeq(q.items, 1, Len(q.items) - 1),
                   !.count = q.count - 1,
                   !.size = q.size - (_getPacketSize(q.items[Len(q.items)]) + OVERHEAD)]

\* PacketQueue.pop: the queue after removing the head (unchanged when empty)
pop(q) ==
    IF q.items = <<>> THEN q
    ELSE [q EXCEPT !.items = Tail(q.items),
                   !.count = q.count - 1,
                   !.size = q.size - (_getPacketSize(Head(q.items)) + OVERHEAD)]

\* the packet PacketQueue.pop returns (NoPacket for null)
front(q) == IF q.items = <<>> THEN NoPacket ELSE Head(q.items)

RECURSIVE ResizeLoop(_, _)
\* the while loop of PacketQueue._resize: the queue and droppedCount after it
ResizeLoop(q, droppedCount) ==
    IF q.backlog < q.size
    THEN IF q.items = <<>>
         THEN [q |-> [q EXCEPT !.size = 0], droppedCount |-> droppedCount]
         ELSE ResizeLoop(pop(q), droppedCount + 1)
    ELSE [q |-> q, droppedCount |-> droppedCount]

\* _resize that reports every evicted record to the hook on its own
_resize_HookPerRecord(q) ==
    LET r == ResizeLoop(q, 0)
    IN  IF r.droppedCount > 0 /\ r.q.hook
        THEN [r.q EXCEPT !.dropped = @ \o [i \in 1..r.droppedCount |-> 1]]
        ELSE r.q

\* PacketQueue._resize
_resize(q) ==
    LET r == ResizeLoop(q, 0)
    IN  IF r.droppedCount > 0 /\ r.q.hook
        THEN [r.q EXCEPT !.dropped = Append(@, r.droppedCount)]
        ELSE r.q

\* PacketQueue `set backlog(value)`
setBacklog(q, value) == _resize([q EXCEPT !.backlog = value])

\* push that forgets to trim
push_NoResize(q, p) ==
    [q EXCEPT !.items = Append(q.items, p),
              !.count = q.count + 1,
              !.size = q.size + _getPacketSize(p) + OVERHEAD]

\* PacketQueue.push
push(q, p) ==
    _resize([q EXCEPT !.items = Append(q.items, p),
                      !.count = q.count + 1,
                      !.size = q.size + _getPacketSize(p) + OVERHEAD])

RECURSIVE clear(_)
\* PacketQueue.clear
clear(q) == IF q.items = <<>> THEN q ELSE clear(pop(q))

\* ---------------------------------------------------------- SchedulerQueue
NoCommand == [id |-> 0, action |-> -1, state |-> NoPacket]

\* SchedulerCommand.size
CommandSize(c) ==
    IF c.action # ActionWritePacket THEN 0
    ELSE IF c.state = NoPacket THEN 0
    ELSE _getPacketSize(c.state)

\* new SchedulerQueue()
EmptySQ == [items |-> <<>>, size |-> 0, count |-> 0]

\* SchedulerQueue._add
_add(q, c) ==
    [q EXCEPT !.items = Append(q.items, c),
              !.count = q.count + 1,
              !.size = q.size + CommandSize(c) + SQ_OVERHEAD]

\* _remove that leaves the byte size as it was
_remove_KeepSize(q, i) ==
    [q EXCEPT !.items = SubSeq(q.items, 1, i - 1) \o SubSeq(q.items, i + 1, Len(q.items)),
              !.count = q.count - 1]

\* SchedulerQueue._remove of the item at position i
_remove(q, i) ==
    [q EXCEPT !.items = SubSeq(q.items, 1, i - 1) \o SubSeq(q.items, i + 1, Len(q.items)),
              !.count = q.count - 1,
              !.size = q.size - (CommandSize(q.items[i]) + SQ_OVERHEAD)]

\* SchedulerQueue.enqueue
enqueue(q, c) == _add(q, c)

\* SchedulerQueue.dequeue: the command returned (NoCommand for null) ...
sqHead(q) == IF q.items = <<>> THEN NoCommand ELSE Head(q.items)
\* ... and the queue it leaves
dequeue(q) == IF q.items = <<>> THEN q ELSE _remove(q, 1)

RECURSIVE sqClear(_)
\* SchedulerQueue.clear
sqClear(q) == IF q.items = <<>> THEN q ELSE sqClear(dequeue(q))

RECURSIVE TrimLoop(_, _, _, _)
\* the while loop of SchedulerQueue.trim, at the item at position i
TrimLoop(q, i, freedSize, size) ==
    IF i > Len(q.items) THEN [q |-> q, ok |-> FALSE]
    ELSE IF q.items[i].action = ActionWritePacket
    THEN LET freed == freedSize + CommandSize(q.items[i]) + SQ_OVERHEAD
         IN  IF freed >= size THEN [q |-> _remove(q, i), ok |-> TRUE]
             ELSE TrimLoop(_remove(q, i), i, freed, size)
    ELSE TrimLoop(q, i + 1, freedSize, size)

RECURSIVE TrimAnyLoop(_, _, _)
\* a trim loop that takes whatever command is oldest
TrimAnyLoop(q, freedSize, size) ==
    IF q.items = <<>> THEN [q |-> q, ok |-> FALSE]
    ELSE LET freed == freedSize + CommandSize(Head(q.items)) + SQ_OVERHEAD
         IN  IF freed >= size THEN [q |-> dequeue(q), ok |-> TRUE]
             ELSE TrimAnyLoop(dequeue(q), freed, size)

\* trim that does not look at the kind of the commands it removes
trim_AnyKind(q, size) ==
    IF size <= 0 THEN [q |-> q, ok |-> TRUE] ELSE TrimAnyLoop(q, 0, size)

\* SchedulerQueue.trim: the queue it leaves and the value it returns
trim(q, size) ==
    IF size <= 0 THEN [q |-> q, ok |-> TRUE] ELSE TrimLoop(q, 1, 0, size)

\* ------------------------------------------------------------ derived config
\* this._keepOpen = !this.backlogEnabled || this.backlogKeepOpen
_keepOpen == (~cfg.backlogEnabled) \/ cfg.backlogKeepOpen

\* packet.level ?? Level.Message
PacketLevel(p) == IF p.level = NoLevel THEN LevelMessage ELSE p.level

\* ------------------------------------------------------------------ frames
Banner == [kind |-> "Banner", id |-> 0]
\* BinaryFormatter.format as seen on the wire: the frame kind and the record
format(p) == IF p.id = 0 THEN [kind |-> "LogHeader", id |-> 0]
             ELSE [kind |-> "LogEntry", id |-> p.id]

Frame(fn, p, da) == [fn |-> fn, pkt |-> p, da |-> da]

\* The program state the jobs work on.
S == [connected |-> connected, failed |-> failed, socket |-> socket,
      queue |-> queue, tick |-> tickCount, socks |-> socks, tasks |-> tasks,
      mq |-> mq, crashed |-> crashed, rejected |-> rejected, over |-> FALSE,
      errs |-> onErrors]

\* A socket made by _internalConnect for task t: its state, the closure
\* variables of its handlers, the bytes written to it, and (history) the
\* caller that opened it and when.
NewSocket(st, t) ==
    [status |-> "connecting", hs |-> FALSE, timer |-> TRUE,
     settled |-> "pending", waiter |-> t, once |-> <<>>, wire |-> <<>>,
     est |-> FALSE, by |-> st.tasks[t][Len(st.tasks[t])].fn, at |-> now]

PushFrame(st, t, f) == [st EXCEPT !.tasks[t] = Append(@, f)]

\* An async function returns (res = "ok") or throws (res = "err"): its promise
\* settles and the awaiting caller's continuation becomes a microtask.  With
\* no caller frame the promise is the one handed to the application.
Complete(st, t, res) ==
    IF st.tasks[t] = <<>>
    THEN IF res = "err" THEN [st EXCEPT !.rejected = @ \cup {t}] ELSE st
    ELSE [st EXCEPT !.mq = Append(@, [t |-> t, res |-> res])]

\* socket.destroy(): a later 'close' event, once
destroy(st, s) ==
    IF st.socks[s].status \in {"connecting", "open"}
    THEN [st EXCEPT !.socks[s].status = "destroyed"]
    ELSE st

\* socket.write(buffer) on socket s
write(st, s, fr) ==
    IF st.socks[s].status \in {"connecting", "open"}
    THEN [st EXCEPT !.socks[s].wire = Append(@, fr)]
    ELSE st

\* TcpProtocol._internalWritePacket
_internalWritePacket(st, p) ==
    IF st.socket # 0 THEN write(st, st.socket, format(p)) ELSE st

\* TcpProtocol._internalConnect, awaited by task t
_internalConnect(st, t) ==
    IF st.connected
    THEN [st EXCEPT !.mq = Append(@, [t |-> t, res |-> "ok"])]
    ELSE IF Len(st.socks) >= MaxSockets
    THEN [st EXCEPT !.over = TRUE]
    ELSE [st EXCEPT !.socks = Append(@, NewSocket(st, t)),
                    !.socket = Len(st.socks) + 1]

\* TcpProtocol._internalDisconnect, awaited by task t (0: a detached _reset)
_internalDisconnect(st, t) ==
    IF st.socket # 0
    THEN destroy([st EXCEPT !.socks[st.socket].once = Append(@, t)], st.socket)
    ELSE [st EXCEPT !.mq = Append(@, [t |-> t, res |-> "ok"])]

\* TcpProtocol._reset up to its await; t = 0 when the caller does not await it
_reset(st, t) ==
    LET st1 == [st EXCEPT !.connected = FALSE, !.queue = clear(st.queue)]
    IN  IF t = 0 THEN _internalDisconnect(st1, 0)
        ELSE _internalDisconnect(PushFrame(st1, t, Frame("_reset", NoPacket, FALSE)), t)

\* TcpProtocol._reconnect up to its first await
_reconnect(st, t) ==
    IF cfg.reconnectInterval > 0 /\ (now - st.tick) < cfg.reconnectInterval
    THEN Complete(st, t, "ok")
    ELSE _internalConnect(PushFrame(st, t, Frame("_reconnect", NoPacket, FALSE)), t)

\* _forwardPacket that never disconnects after the write
ForwardWrite_NoDisconnect(st, t, p, da) ==
    IF st.connected
    THEN Complete(_internalWritePacket(st, p), t, "ok")
    ELSE Complete(st, t, "ok")

\* TcpProtocol._forwardPacket from `if (this.connected)` on
ForwardWrite(st, t, p, da) ==
    IF st.connected
    THEN LET st1 == _internalWritePacket(st, p)
         IN  IF da
             THEN _internalDisconnect(
                      PushFrame([st1 EXCEPT !.connected = FALSE], t,
                                Frame("_forwardPacket.disconnect", p, da)), t)
             ELSE Complete(st1, t, "ok")
    ELSE Complete(st, t, "ok")

\* TcpProtocol._forwardPacket
_forwardPacket(st, t, p, da) ==
    IF ~st.connected
    THEN IF _keepOpen
         THEN _reconnect(PushFrame(st, t, Frame("_forwardPacket.reconnect", p, da)), t)
         ELSE _internalConnect(
                  PushFrame(st, t, Frame("_forwardPacket.connect", p, da)), t)
    ELSE ForwardWrite(st, t, p, da)

\* TcpProtocol._flushQueue: one turn of its loop
_flushQueue(st, t) ==
    IF st.queue.items = <<>>
    THEN Complete(st, t, "ok")
    ELSE _forwardPacket(
             PushFrame([st EXCEPT !.queue = pop(st.queue)], t,
                       Frame("_flushQueue", NoPacket, FALSE)),
             t, Head(st.queue.items), FALSE)

\* TcpProtocol._handleException up to its throw: the observer is called in
\* async mode only
_handleException(st) ==
    [st EXCEPT !.failed = TRUE,
               !.errs = IF cfg.asyncEnabled THEN @ + 1 ELSE @]

\* how a function ends after _handleException: it throws in sync mode only
Thrown == IF cfg.asyncEnabled THEN "ok" ELSE "err"

\* catch block of implWritePacket and implConnect:
\* this._reset() (not awaited); this._handleException(err.message)
CatchReset(st, t) ==
    Complete(_handleException(_reset(st, 0)), t, Thrown)

\* implWritePacket without its early return for a protocol that is not
\* connected, has reconnect disabled and keeps the connection open
implWritePacket_NoSkip(st, t, p) ==
    IF cfg.backlogEnabled
    THEN IF PacketLevel(p) >= cfg.backlogFlushOn /\ PacketLevel(p) # LevelControl
         THEN _flushQueue(PushFrame(st, t, Frame("implWritePacket.flush", p, FALSE)), t)
         ELSE Complete([st EXCEPT !.queue = push(st.queue, p)], t, "ok")
    ELSE _forwardPacket(PushFrame(st, t, Frame("implWritePacket.last", p, FALSE)),
                        t, p, ~_keepOpen)

\* TcpProtocol.implWritePacket
implWritePacket(st, t, p) ==
    IF ~st.connected /\ ~cfg.reconnect /\ _keepOpen
    THEN Complete(st, t, "ok")
    ELSE IF cfg.backlogEnabled
    THEN IF PacketLevel(p) >= cfg.backlogFlushOn /\ PacketLevel(p) # LevelControl
         THEN _flushQueue(PushFrame(st, t, Frame("implWritePacket.flush", p, FALSE)), t)
         ELSE Complete([st EXCEPT !.queue = push(st.queue, p)], t, "ok")
    ELSE _forwardPacket(PushFrame(st, t, Frame("implWritePacket.last", p, FALSE)),
                        t, p, ~_keepOpen)

\* TcpProtocol.implConnect
implConnect(st, t) ==
    IF st.connected \/ ~_keepOpen
    THEN Complete(st, t, "ok")
    ELSE _internalConnect(PushFrame(st, t, Frame("implConnect", NoPacket, FALSE)), t)

\* TcpProtocol.connect (sync mode)
connect(st, t) == implConnect(PushFrame(st, t, Frame("connect", NoPacket, FALSE)), t)

\* implDisconnect that leaves the backlog alone when not connected
implDisconnect_NoClear(st, t) ==
    IF ~st.connected
    THEN Complete(st, t, "ok")
    ELSE _reset(PushFrame(st, t, Frame("implDisconnect", NoPacket, FALSE)), t)

\* TcpProtocol.implDisconnect
implDisconnect(st, t) ==
    IF ~st.connected
    THEN Complete([st EXCEPT !.queue = clear(st.queue)], t, "ok")
    ELSE _reset(PushFrame(st, t, Frame("implDisconnect", NoPacket, FALSE)), t)

\* TcpProtocol.disconnect (sync mode)
disconnect(st, t) ==
    implDisconnect(PushFrame(st, t, Frame("disconnect", NoPacket, FALSE)), t)

\* The continuation of an await: task t resumes with the awaited promise's
\* outcome.  t = 0 is the `finally` of a detached _reset.
Resume(st0, t, res) ==
    IF t = 0 THEN [st0 EXCEPT !.tick = now]
    ELSE
    LET stack == st0.tasks[t]
        f == stack[Len(stack)]
        st == [st0 EXCEPT !.tasks[t] = SubSeq(stack, 1, Len(stack) - 1)]
    IN  CASE f.fn = "connect" -> Complete(st, t, res)
          [] f.fn = "_runCommand" -> Complete(st, t, res)
          [] f.fn = "disconnect" -> Complete(st, t, res)
          [] f.fn = "implConnect" ->
                IF res = "ok"
                THEN Complete([st EXCEPT !.connected = TRUE, !.failed = FALSE], t, "ok")
                ELSE CatchReset(st, t)
          [] f.fn = "implDisconnect" ->
                IF res = "ok" THEN Complete(st, t, "ok")
                ELSE Complete(_handleException(st), t, Thrown)
          [] f.fn = "_reset" -> Complete([st EXCEPT !.tick = now], t, "ok")
          [] f.fn = "_reconnect" ->
                IF res = "ok"
                THEN Complete([st EXCEPT !.connected = TRUE, !.failed = FALSE,
                                         !.tick = now], t, "ok")
                ELSE _reset(PushFrame([st EXCEPT !.failed = TRUE], t,
                                      Frame("_reconnect.reset", NoPacket, FALSE)), t)
          [] f.fn = "_reconnect.reset" -> Complete([st EXCEPT !.tick = now], t, "ok")
          [] f.fn = "_forwardPacket.reconnect" -> ForwardWrite(st, t, f.pkt, f.da)
          [] f.fn = "_forwardPacket.connect" ->
                IF res = "ok"
                THEN ForwardWrite([st EXCEPT !.connected = TRUE, !.failed = FALSE],
                                  t, f.pkt, f.da)
                ELSE Complete(st, t, "err")
          [] f.fn = "_forwardPacket.disconnect" -> Complete(st, t, "ok")
          [] f.fn = "_flushQueue" ->
                IF res = "ok" THEN _flushQueue(st, t) ELSE Complete(st, t, "err")
          [] f.fn = "implWritePacket.flush" ->
                IF res = "ok"
                THEN _forwardPacket(
                         PushFrame(st, t, Frame("implWritePacket.forward", f.pkt, FALSE)),
                         t, f.pkt, ~_keepOpen)
                ELSE CatchReset(st, t)
          [] f.fn = "implWritePacket.forward" ->
                IF res = "ok"
                THEN _forwardPacket(
                         PushFrame(st, t, Frame("implWritePacket.last", f.pkt, FALSE)),
                         t, f.pkt, ~_keepOpen)
                ELSE CatchReset(st, t)
          [] f.fn = "implWritePacket.last" ->
                IF res = "ok" THEN Complete(st, t, "ok") ELSE CatchReset(st, t)

\* ----------------------------------------------------------- socket events
\* The promise of socket s's _internalConnect settles (first settlement wins).
Settle(st, s, res) ==
    IF st.socks[s].settled = "pending"
    THEN [st EXCEPT !.socks[s].settled = res,
                    !.mq = Append(@, [t |-> st.socks[s].waiter, res |-> res])]
    ELSE st

\* 'data' handler installed by _internalConnect on socket s: the server banner
OnData(st, s) ==
    IF st.socks[s].hs THEN st
    ELSE IF st.socket = 0 THEN [st EXCEPT !.crashed = TRUE]
    ELSE LET st1 == write(st, st.socket, Banner)
             st2 == [st1 EXCEPT !.socks[s].hs = TRUE, !.connected = TRUE]
             st3 == _internalWritePacket(st2, NoPacket)
         IN  Settle([st3 EXCEPT !.socks[s].timer = FALSE], s, "ok")

\* 'error' handler installed by _internalConnect on socket s
OnError(st, s) ==
    Settle([st EXCEPT !.socks[s].timer = FALSE, !.connected = FALSE,
                      !.errs = @ + 1], s, "err")

RECURSIVE OnceClose(_, _)
\* the once('close') handlers of _internalDisconnect, in registration order
OnceClose(st, ws) ==
    IF ws = <<>> THEN st
    ELSE OnceClose([st EXCEPT !.socket = 0, !.connected = FALSE,
                              !.mq = Append(@, [t |-> Head(ws), res |-> "ok"])],
                   Tail(ws))

\* 'close' on socket s: the handler of _internalConnect, then the once handlers
OnClose(st, s) ==
    OnceClose([st EXCEPT !.socks[s].timer = FALSE, !.socks[s].status = "closed",
                         !.socks[s].once = <<>>, !.connected = FALSE],
              st.socks[s].once)

\* the connect timer of _internalConnect for socket s
OnConnectTimeout(st, s) ==
    IF st.socket = 0 THEN [st EXCEPT !.crashed = TRUE, !.socks[s].timer = FALSE]
    ELSE Settle(destroy([st EXCEPT !.socks[s].timer = FALSE], st.socket), s, "err")

\* ------------------------------------------------------------------ actions
Commit(st) ==
    /\ ~st.over
    /\ connected' = st.connected
    /\ failed' = st.failed
    /\ socket' = st.socket
    /\ queue' = st.queue
    /\ tickCount' = st.tick
    /\ socks' = st.socks
    /\ tasks' = st.tasks
    /\ mq' = st.mq
    /\ crashed' = st.crashed
    /\ rejected' = st.rejected
    /\ onErrors' = st.errs
    /\ UNCHANGED <<server, sent>>
    /\ UNCHANGED <<qh, sched, exec, slog>>

Configs ==
    [reconnect : BOOLEAN, backlogEnabled : BOOLEAN, backlogKeepOpen : BOOLEAN,
     reconnectInterval : Intervals, backlogFlushOn : {LevelError},
     backlogQueue : {DefaultBacklogKB * 1024}, peerUp : BOOLEAN,
     asyncEnabled : {FALSE}]

\* no PacketQueue is driven directly
NoHistory == [ops |-> 0, pushed |-> <<>>, removed |-> <<>>, popped |-> <<>>, evicted |-> <<>>]

\* this._scheduler = null: no Scheduler exists
NoScheduler == [started |-> FALSE, stopped |-> FALSE, processing |-> FALSE,
                processTimer |-> FALSE, throttle |-> FALSE, threshold |-> 0,
                queue |-> EmptySQ, throttleWaiters |-> <<>>]
NoExec == [batch |-> <<>>, drain |-> <<>>, released |-> <<>>]
NoLog == [ops |-> 0, scheduled |-> <<>>, handed |-> <<>>, trims |-> <<>>,
          removed |-> <<>>, last |-> [op |-> "none", cmd |-> NoCommand, ret |-> "none"]]

\* the constructor of TcpProtocol (async disabled)
Init ==
    /\ cfg \in Configs
    /\ connected = FALSE
    /\ failed = FALSE
    /\ socket = 0
    /\ queue = EmptyQueue(cfg.backlogQueue)
    /\ tickCount = 0
    /\ socks = <<>>
    /\ tasks = <<>>
    /\ mq = <<>>
    /\ crashed = FALSE
    /\ now = 1
    /\ calls = <<>>
    /\ rejected = {}
    /\ faults = 0
    /\ ran = FALSE
    /\ qh = NoHistory
    /\ sched = NoScheduler
    /\ exec = NoExec
    /\ slog = NoLog
    /\ onErrors = 0
    /\ server = NoClient
    /\ sent = NothingSent

NewCall(op, p) ==
    /\ ~crashed
    /\ Len(calls) < MaxCalls
    /\ calls' = Append(calls, [op |-> op, pkt |-> p, conn |-> connected, sync |-> ~ran])
    /\ UNCHANGED <<cfg, now, faults, ran>>

Started == [S EXCEPT !.tasks = Append(@, <<>>)]

\* the application calls protocol.connect()
CallConnect ==
    /\ NewCall("connect", NoPacket)
    /\ Commit(connect(Started, Len(calls) + 1))

\* the application calls protocol.writePacket(packet)
CallWritePacket ==
    \E lv \in WriteLevels :
        LET p == [id |-> Len(calls) + 1, level |-> lv, len |-> 0]
        IN  /\ NewCall("write", p)
            /\ Commit(implWritePacket(Started, Len(calls) + 1, p))

\* the application calls protocol.disconnect()
CallDisconnect ==
    /\ NewCall("disconnect", NoPacket)
    /\ Commit(disconnect(Started, Len(calls) + 1))

\* the event loop runs the oldest microtask
RunMicrotask ==
    /\ ~crashed
    /\ mq # <<>>
    /\ Commit(Resume([S EXCEPT !.mq = Tail(mq)], Head(mq).t, Head(mq).res))
    /\ ran' = TRUE
    /\ UNCHANGED <<cfg, now, calls, faults>>

Idle == ~crashed /\ mq = <<>>

\* the server banner arrives on socket s
SocketData ==
    \E s \in 1..Len(socks) :
        /\ Idle
        /\ cfg.peerUp
        /\ socks[s].status \in {"connecting", "open"}
        /\ ~socks[s].est
        /\ Commit(OnData([S EXCEPT !.socks[s].status = "open", !.socks[s].est = TRUE], s))
        /\ ran' = TRUE
        /\ UNCHANGED <<cfg, now, calls, faults>>

\* the connection attempt of socket s fails: 'error' then 'close'
SocketError ==
    \E s \in 1..Len(socks) :
        /\ Idle
        /\ ~cfg.peerUp
        /\ socks[s].status = "connecting"
        /\ Commit(OnClose(OnError(S, s), s))
        /\ ran' = TRUE
        /\ UNCHANGED <<cfg, now, calls, faults>>

\* 'close' of socket s after a local destroy()
SocketClose ==
    \E s \in 1..Len(socks) :
        /\ Idle
        /\ socks[s].status = "destroyed"
        /\ Commit(OnClose(S, s))
        /\ ran' = TRUE
        /\ UNCHANGED <<cfg, now, calls, faults>>

\* the peer closes the established connection of socket s: 'close'
PeerClose ==
    \E s \in 1..Len(socks) :
        /\ Idle
        /\ faults < MaxFaults
        /\ socks[s].status = "open"
        /\ Commit(OnClose(S, s))
        /\ faults' = faults + 1
        /\ ran' = TRUE
        /\ UNCHANGED <<cfg, now, calls>>

\* the connect timer of socket s fires
ConnectTimeout ==
    \E s \in 1..Len(socks) :
        /\ Idle
        /\ faults < MaxFaults
        /\ socks[s].timer
        /\ Commit(OnConnectTimeout(S, s))
        /\ faults' = faults + 1
        /\ ran' = TRUE
        /\ UNCHANGED <<cfg, now, calls>>

\* time passes
Tick ==
    /\ Idle
    /\ now < MaxTime
    /\ now' = now + 1
    /\ UNCHANGED <<cfg, connected, failed, socket, queue, tickCount, socks, tasks,
                   mq, crashed, calls, rejected, faults, ran, qh, sched, exec, slog,
                   onErrors, server, sent>>

Next ==
    \/ CallConnect
    \/ CallWritePacket
    \/ CallDisconnect
    \/ RunMicrotask
    \/ SocketData
    \/ SocketError
    \/ SocketClose
    \/ PeerClose
    \/ ConnectTimeout
    \/ Tick

Spec == Init /\ [][Next]_vars

\* ---------------------------------------------- a PacketQueue driven directly
\* summed byte lengths of a packet's text fields, and capacities, explored
PacketLens == {0, 50, 150}
QueueCaps == {0, 100, 200, 300}

\* new PacketQueue(); queue.backlog = cap; with or without onPacketDropped
QInit ==
    /\ \E cap \in QueueCaps, h \in BOOLEAN :
          /\ cfg = [reconnect |-> TRUE, backlogEnabled |-> TRUE, backlogKeepOpen |-> TRUE,
                    reconnectInterval |-> 0, backlogFlushOn |-> LevelError,
                    backlogQueue |-> cap, peerUp |-> FALSE, asyncEnabled |-> FALSE]
          /\ queue = [setBacklog(EmptyQueue(DefaultBacklogKB * 1024), cap) EXCEPT !.hook = h]
    /\ connected = FALSE
    /\ failed = FALSE
    /\ socket = 0
    /\ tickCount = 0
    /\ socks = <<>>
    /\ tasks = <<>>
    /\ mq = <<>>
    /\ crashed = FALSE
    /\ now = 1
    /\ calls = <<>>
    /\ rejected = {}
    /\ faults = 0
    /\ ran = FALSE
    /\ qh = NoHistory
    /\ sched = NoScheduler
    /\ exec = NoExec
    /\ slog = NoLog
    /\ onErrors = 0
    /\ server = NoClient
    /\ sent = NothingSent

QFrame ==
    UNCHANGED <<cfg, connected, failed, socket, tickCount, socks, tasks, mq,
                crashed, now, calls, rejected, faults, ran, sched, exec, slog,
                onErrors, server, sent>>

\* the records that left the queue when `before` became `after`
Gone(before, after) == SubSeq(before, 1, Len(before) - Len(after))

\* queue.push(packet)
QPush ==
    \E len \in PacketLens :
        LET p == [id |-> Len(qh.pushed) + 1, level |-> NoLevel, len |-> len]
            gone == Gone(Append(queue.items, p), push(queue, p).items)
        IN  /\ qh.ops < MaxQueueOps
            /\ queue' = push(queue, p)
            /\ qh' = [qh EXCEPT !.ops = @ + 1, !.pushed = Append(@, p),
                                !.removed = @ \o gone, !.evicted = @ \o gone]
            /\ QFrame

\* queue.pop()
QPop ==
    /\ qh.ops < MaxQueueOps
    /\ queue' = pop(queue)
    /\ qh' = IF front(queue) = NoPacket THEN [qh EXCEPT !.ops = @ + 1]
             ELSE [qh EXCEPT !.ops = @ + 1, !.removed = Append(@, front(queue)),
                             !.popped = Append(@, front(queue))]
    /\ QFrame

\* queue.backlog = value
QSetBacklog ==
    \E value \in QueueCaps :
        LET gone == Gone(queue.items, setBacklog(queue, value).items)
        IN  /\ qh.ops < MaxQueueOps
            /\ queue' = setBacklog(queue, value)
            /\ qh' = [qh EXCEPT !.ops = @ + 1,
                                !.removed = @ \o gone, !.evicted = @ \o gone]
            /\ QFrame

QNext ==
    \/ QPush
    \/ QPop
    \/ QSetBacklog

QueueSpec == QInit /\ [][QNext]_vars

\* ------------------------------------- a SchedulerQueue driven directly
CommandLens == {0, 100}
TrimSizes == {0, 100, 250}
Actions == {ActionConnect, ActionWritePacket, ActionDisconnect, ActionDispatch}

\* new SchedulerCommand(action, state): WritePacket and Dispatch carry a state
NewCommand(id, action, len) ==
    [id |-> id, action |-> action,
     state |-> IF action \in {ActionWritePacket, ActionDispatch}
               THEN [id |-> id, level |-> NoLevel, len |-> len] ELSE NoPacket]

\* a protocol that is never connected nor written to
ProtocolAtRest ==
    /\ cfg = [reconnect |-> TRUE, backlogEnabled |-> TRUE, backlogKeepOpen |-> TRUE,
              reconnectInterval |-> 0, backlogFlushOn |-> LevelError,
              backlogQueue |-> DefaultBacklogKB * 1024, peerUp |-> FALSE,
              asyncEnabled |-> TRUE]
    /\ queue = EmptyQueue(DefaultBacklogKB * 1024)
    /\ connected = FALSE
    /\ socket = 0
    /\ tickCount = 0
    /\ socks = <<>>
    /\ tasks = <<>>
    /\ mq = <<>>
    /\ crashed = FALSE
    /\ now = 1
    /\ calls = <<>>
    /\ rejected = {}
    /\ faults = 0
    /\ ran = FALSE
    /\ qh = NoHistory
    /\ onErrors = 0
    /\ server = NoClient
    /\ sent = NothingSent

\* new SchedulerQueue()
SQInit ==
    /\ ProtocolAtRest
    /\ failed = FALSE
    /\ sched = NoScheduler
    /\ exec = NoExec
    /\ slog = NoLog

SQFrame ==
    UNCHANGED <<cfg, connected, failed, socket, queue, tickCount, socks, tasks, mq,
                crashed, now, calls, rejected, faults, ran, qh, exec, onErrors, server, sent>>

\* queue.enqueue(command)
SQEnqueue ==
    \E action \in Actions, len \in CommandLens :
        LET c == NewCommand(slog.ops + 1, action, len)
        IN  /\ slog.ops < MaxSQOps
            /\ action # ActionWritePacket => len = 0
            /\ sched' = [sched EXCEPT !.queue = enqueue(@, c)]
            /\ slog' = [slog EXCEPT !.ops = @ + 1, !.scheduled = Append(@, c)]
            /\ SQFrame

\* queue.dequeue()
SQDequeue ==
    /\ slog.ops < MaxSQOps
    /\ sched' = [sched EXCEPT !.queue = dequeue(@)]
    /\ slog' = IF sqHead(sched.queue) = NoCommand THEN [slog EXCEPT !.ops = @ + 1]
               ELSE [slog EXCEPT !.ops = @ + 1, !.handed = Append(@, sqHead(sched.queue))]
    /\ SQFrame

\* queue.trim(size)
SQTrim ==
    \E size \in TrimSizes :
        LET r == trim(sched.queue, size)
        IN  /\ slog.ops < MaxSQOps
            /\ sched' = [sched EXCEPT !.queue = r.q]
            /\ slog' = [slog EXCEPT !.ops = @ + 1,
                                    !.trims = Append(@, [size |-> size, ok |-> r.ok,
                                                         before |-> sched.queue.items,
                                                         after |-> r.q.items])]
            /\ SQFrame

\* queue.clear()
SQClear ==
    /\ slog.ops < MaxSQOps
    /\ sched' = [sched EXCEPT !.queue = sqClear(@)]
    /\ slog' = [slog EXCEPT !.ops = @ + 1]
    /\ SQFrame

SQNext ==
    \/ SQEnqueue
    \/ SQDequeue
    \/ SQTrim
    \/ SQClear

SQSpec == SQInit /\ [][SQNext]_vars

\* ------------------------------------------------------------- Scheduler
\* the Scheduler, its suspended functions, the history and protocol.failed
SS == [s |-> sched, e |-> exec, l |-> slog, f |-> failed]

Said(st, op, c, ret) == [st EXCEPT !.l.last = [op |-> op, cmd |-> c, ret |-> ret]]

\* Scheduler._scheduleProcessing
_scheduleProcessing(st) ==
    IF st.s.processing \/ ~st.s.started \/ st.s.stopped THEN st
    ELSE IF st.s.queue.count = 0 THEN st
    ELSE IF st.s.processTimer THEN st
    ELSE [st EXCEPT !.s.processTimer = TRUE]

\* Scheduler._releaseWaiters: every resolve() queues its waiter's continuation
_releaseWaiters(st) ==
    [st EXCEPT !.e.released = @ \o st.s.throttleWaiters,
               !.s.throttleWaiters = <<>>]

\* the hook Scheduler._runCommand calls for the command
HookOf_AlwaysWrite(c) == "implWritePacket"

HookOf(c) ==
    IF c.action = ActionConnect THEN "implConnect"
    ELSE IF c.action = ActionWritePacket THEN "implWritePacket"
    ELSE IF c.action = ActionDisconnect THEN "implDisconnect"
    ELSE IF c.action = ActionDispatch THEN "implDispatch"
    ELSE "none"

\* the command reaches the protocol: the hook, its argument, and what
\* this._stopped was at that moment
Handed(st, c, hook, by) ==
    [st EXCEPT !.l.handed = Append(@, [cmd |-> c, hook |-> hook, by |-> by,
                                       arg |-> IF hook \in {"implWritePacket", "implDispatch"}
                                               THEN c.state ELSE NoPacket,
                                       stopped |-> st.s.stopped])]

\* Scheduler.clear
s_clear(st) ==
    _releaseWaiters([st EXCEPT !.s.queue = sqClear(@),
                               !.l.removed = @ \o st.s.queue.items])

\* the end of Scheduler._processCommands, after its while loop
BatchEnd(st) ==
    LET a == _releaseWaiters(st)
        b == IF a.s.queue.count > 0 /\ ~a.s.stopped THEN _scheduleProcessing(a) ELSE a
    IN  [b EXCEPT !.s.processing = FALSE, !.e.batch = <<>>]

\* the while loop of Scheduler._processCommands up to its await
BatchLoop(st, processed) ==
    IF st.s.queue.count > 0 /\ processed < BUFFER_SIZE
    THEN LET c == sqHead(st.s.queue)
             a == [st EXCEPT !.s.queue = dequeue(@),
                             !.e.batch = <<[processed |-> processed,
                                            wasStopped |-> st.s.stopped]>>]
         IN  Handed(a, c, HookOf(c), "batch")
    ELSE BatchEnd(st)

\* Scheduler._processCommands resumed after await this._runCommand(command)
BatchResume(st) ==
    LET b == st.e.batch[1]
    IN  IF b.wasStopped /\ st.f THEN BatchEnd(s_clear(st))
        ELSE BatchLoop(st, b.processed + 1)

\* Scheduler._processCommands
_processCommands(st) ==
    IF st.s.processing THEN st
    ELSE BatchLoop([st EXCEPT !.s.processing = TRUE], 0)

RECURSIVE _drain(_)
\* Scheduler._drain up to its await (or to its end)
_drain(st) ==
    IF st.s.queue.count > 0
    THEN LET c == sqHead(st.s.queue)
             a == [st EXCEPT !.s.queue = dequeue(@)]
         IN  IF c.action = ActionDisconnect
             THEN Handed([a EXCEPT !.e.drain = <<1>>], c, "implDisconnect", "drain")
             ELSE _drain([a EXCEPT !.l.removed = Append(@, c)])
    ELSE [st EXCEPT !.e.drain = <<>>]

\* Scheduler.start
start(st) ==
    IF st.s.started THEN st
    ELSE _scheduleProcessing([st EXCEPT !.s.started = TRUE, !.s.stopped = FALSE])

\* stop that leaves the throttle waiters suspended
stop_NoRelease(st) ==
    IF ~st.s.started THEN st
    ELSE _drain([st EXCEPT !.s.stopped = TRUE, !.s.started = FALSE,
                           !.s.processTimer = FALSE])

\* Scheduler.stop
stop(st) ==
    IF ~st.s.started THEN st
    ELSE _drain(_releaseWaiters([st EXCEPT !.s.stopped = TRUE, !.s.started = FALSE,
                                           !.s.processTimer = FALSE]))

\* the trim of schedule and scheduleAsync, and the enqueue that follows
TrimEnqueue(st, c, doTrim) ==
    LET r == IF doTrim THEN trim(st.s.queue, CommandSize(c))
             ELSE [q |-> st.s.queue, ok |-> TRUE]
        a == [st EXCEPT !.s.queue = enqueue(r.q, c),
                        !.l.scheduled = Append(@, c),
                        !.l.removed = @ \o SelectSeq(st.s.queue.items,
                                          LAMBDA x : \A k \in 1..Len(r.q.items) : r.q.items[k] # x),
                        !.l.trims = IF doTrim
                                    THEN Append(@, [size |-> CommandSize(c), ok |-> r.ok,
                                                    before |-> st.s.queue.items,
                                                    after |-> r.q.items])
                                    ELSE @]
    IN  _scheduleProcessing(a)

\* schedule without the check of the command's size against the threshold
schedule_NoSizeCheck(st, c) ==
    IF ~st.s.started \/ st.s.stopped THEN Said(st, "schedule", c, "false")
    ELSE Said(TrimEnqueue(st, c, st.s.queue.size + CommandSize(c) > st.s.threshold),
              "schedule", c, "true")

\* Scheduler.schedule
schedule(st, c) ==
    IF ~st.s.started \/ st.s.stopped THEN Said(st, "schedule", c, "false")
    ELSE IF CommandSize(c) > st.s.threshold THEN Said(st, "schedule", c, "false")
    ELSE Said(TrimEnqueue(st, c, st.s.queue.size + CommandSize(c) > st.s.threshold),
              "schedule", c, "true")

\* the while loop of Scheduler.scheduleAsync and what follows it
WaitLoop(st, c, op) ==
    IF st.s.queue.size + CommandSize(c) > st.s.threshold /\ ~st.s.stopped
    THEN Said([st EXCEPT !.s.throttleWaiters = Append(@, c)], op, c, "suspended")
    ELSE IF st.s.stopped THEN Said(st, op, c, "false")
    ELSE Said(TrimEnqueue(st, c, FALSE), op, c, "true")

\* scheduleAsync that trims whatever the throttle setting
scheduleAsync_NoThrottle(st, c) ==
    IF ~st.s.started \/ st.s.stopped THEN Said(st, "scheduleAsync", c, "false")
    ELSE IF CommandSize(c) > st.s.threshold THEN Said(st, "scheduleAsync", c, "false")
    ELSE Said(TrimEnqueue(st, c, st.s.queue.size + CommandSize(c) > st.s.threshold),
              "scheduleAsync", c, "true")

\* Scheduler.scheduleAsync up to its first await (or to its end)
scheduleAsync(st, c) ==
    IF ~st.s.started \/ st.s.stopped THEN Said(st, "scheduleAsync", c, "false")
    ELSE IF CommandSize(c) > st.s.threshold THEN Said(st, "scheduleAsync", c, "false")
    ELSE IF st.s.throttle /\ ~st.f THEN WaitLoop(st, c, "scheduleAsync")
    ELSE Said(TrimEnqueue(st, c, st.s.queue.size + CommandSize(c) > st.s.threshold),
              "scheduleAsync", c, "true")

\* ------------------------------------------------ the Scheduler's actions
SchedThresholds == {100, 250, 300}

SCommit(st) ==
    /\ sched' = st.s
    /\ exec' = st.e
    /\ slog' = st.l
    /\ failed' = st.f
    /\ UNCHANGED <<cfg, connected, socket, queue, tickCount, socks, tasks, mq,
                   crashed, now, calls, rejected, faults, ran, qh, onErrors, server, sent>>

Called(st) == [st EXCEPT !.l.ops = @ + 1]

\* new Scheduler(protocol); threshold and throttle as _startScheduler sets them
SInit ==
    /\ ProtocolAtRest
    /\ failed = FALSE
    /\ \E th \in SchedThresholds, thr \in BOOLEAN :
          sched = [NoScheduler EXCEPT !.threshold = th, !.throttle = thr]
    /\ exec = NoExec
    /\ slog = NoLog

\* scheduler.start(), once per Scheduler as in _startScheduler
SStart ==
    /\ slog.ops < MaxSchedOps
    /\ ~sched.started /\ ~sched.stopped
    /\ SCommit(Said(start(Called(SS)), "start", NoCommand, "none"))

\* scheduler.stop()
SStop ==
    /\ slog.ops < MaxSchedOps
    /\ SCommit(Said(stop(Called(SS)), "stop", NoCommand, "none"))

\* scheduler.clear()
SClear ==
    /\ slog.ops < MaxSchedOps
    /\ SCommit(Said(s_clear(Called(SS)), "clear", NoCommand, "none"))

\* scheduler.schedule(command)
SSchedule ==
    \E action \in Actions, len \in CommandLens :
        /\ slog.ops < MaxSchedOps
        /\ action # ActionWritePacket => len = 0
        /\ SCommit(schedule(Called(SS), NewCommand(slog.ops + 1, action, len)))

\* scheduler.scheduleAsync(command)
SScheduleAsync ==
    \E action \in Actions, len \in CommandLens :
        /\ slog.ops < MaxSchedOps
        /\ action # ActionWritePacket => len = 0
        /\ SCommit(scheduleAsync(Called(SS), NewCommand(slog.ops + 1, action, len)))

\* protocol.disconnect() in async mode, with asyncClearOnDisconnect = clr:
\* clear if asked, _scheduleDisconnect, then _stopScheduler up to its await
SDisconnect ==
    \E clr \in BOOLEAN :
        LET d == NewCommand(slog.ops + 1, ActionDisconnect, 0)
            a == IF clr THEN s_clear(Called(SS)) ELSE Called(SS)
        IN  /\ slog.ops < MaxSchedOps
            /\ sched.started
            /\ SCommit(Said(stop(schedule(a, d)), "disconnect", d,
                            IF clr THEN "clear" ELSE "keep"))

\* the setImmediate callback of _scheduleProcessing; continuations of
\* resolved promises run before any timer
ProcessTimerFires ==
    /\ sched.processTimer
    /\ exec.released = <<>>
    /\ SCommit(_processCommands([SS EXCEPT !.s.processTimer = FALSE]))

\* the hook awaited by _processCommands settles; the hook may have changed
\* protocol.failed
HookDone ==
    /\ exec.batch # <<>>
    /\ \E f \in BOOLEAN : SCommit(BatchResume([SS EXCEPT !.f = f]))

\* the implDisconnect awaited by _drain settles
DrainHookDone ==
    /\ exec.drain # <<>>
    /\ \E f \in BOOLEAN : SCommit(_drain([SS EXCEPT !.f = f]))

\* the continuation of the oldest released scheduleAsync runs
WaiterResume ==
    /\ exec.released # <<>>
    /\ SCommit(WaitLoop([SS EXCEPT !.e.released = Tail(@)], Head(exec.released), "resume"))

SNext ==
    \/ SStart
    \/ SStop
    \/ SClear
    \/ SSchedule
    \/ SScheduleAsync
    \/ SDisconnect
    \/ ProcessTimerFires
    \/ HookDone
    \/ DrainHookDone
    \/ WaiterResume

SchedSpec == SInit /\ [][SNext]_vars

\* ---------------------------------- a started Scheduler fed with Writes only
DefaultThreshold == 2048 * 1024

\* new Scheduler(protocol)
BInit ==
    /\ ProtocolAtRest
    /\ failed = FALSE
    /\ sched = [NoScheduler EXCEPT !.threshold = DefaultThreshold]
    /\ exec = NoExec
    /\ slog = NoLog

\* scheduler.schedule(new SchedulerCommand(SchedulerAction.WritePacket, packet))
BSchedule ==
    /\ slog.ops < MaxBatchOps
    /\ SCommit(schedule(Called(SS), NewCommand(slog.ops + 1, ActionWritePacket, 0)))

BNext ==
    \/ SStart
    \/ BSchedule
    \/ ProcessTimerFires
    \/ HookDone

\* every setImmediate callback runs and every hook settles
BatchSpec ==
    /\ BInit
    /\ [][BNext]_vars
    /\ WF_vars(ProcessTimerFires)
    /\ WF_vars(HookDone)

\* ----------------------- a throttling Scheduler with a queue longer than a batch
\* async.queue and the packet size explored: sixteen commands without a
\* packet and one large Write fit under the threshold, two large Writes do not
ThrottleThreshold == 900
BigLen == 400

\* new Scheduler(protocol) with throttle = true
TInit ==
    /\ ProtocolAtRest
    /\ failed = FALSE
    /\ sched = [NoScheduler EXCEPT !.threshold = ThrottleThreshold, !.throttle = TRUE]
    /\ exec = NoExec
    /\ slog = NoLog

\* the large Writes handed to scheduleAsync so far
BigWrites ==
    Len(SelectSeq(slog.scheduled, LAMBDA c : c.action = ActionWritePacket))
        + Len(sched.throttleWaiters) + Len(exec.released)

\* scheduler.schedule(new SchedulerCommand(SchedulerAction.Dispatch, state))
TDispatch ==
    /\ slog.ops < MaxThrottleOps
    /\ SCommit(schedule(Called(SS), NewCommand(slog.ops + 1, ActionDispatch, 0)))

\* await scheduler.scheduleAsync(command) as writePacketAsync calls it
TWriteAsync ==
    /\ slog.ops < MaxThrottleOps
    /\ BigWrites < MaxBigWrites
    /\ SCommit(scheduleAsync(Called(SS), NewCommand(slog.ops + 1, ActionWritePacket, BigLen)))

\* the hook awaited by _processCommands completes; the protocol has not failed
THookDone ==
    /\ exec.batch # <<>>
    /\ SCommit(BatchResume(SS))

TNext ==
    \/ SStart
    \/ TDispatch
    \/ TWriteAsync
    \/ ProcessTimerFires
    \/ THookDone
    \/ WaiterResume

ThrottleSpec == TInit /\ [][TNext]_vars

\* ------------------------ a PacketQueue and a SchedulerQueue driven directly
\* queue.clear()
QClear ==
    /\ queue' = clear(queue)
    /\ qh' = [qh EXCEPT !.ops = @ + 1, !.removed = @ \o queue.items]
    /\ QFrame

\* any operation of either queue, in any order
AccountNext ==
    \/ qh.ops < MaxAccountOps /\ QPush
    \/ qh.ops < MaxAccountOps /\ QPop
    \/ qh.ops < MaxAccountOps /\ QSetBacklog
    \/ qh.ops < MaxAccountOps /\ QClear
    \/ slog.ops < MaxAccountOps /\ SQEnqueue
    \/ slog.ops < MaxAccountOps /\ SQDequeue
    \/ slog.ops < MaxAccountOps /\ SQTrim
    \/ slog.ops < MaxAccountOps /\ SQClear

\* new PacketQueue() and new SchedulerQueue()
AccountSpec == QInit /\ [][AccountNext]_vars

\* ------------------------------------------- a TcpProtocol in async mode
\* The application calls connect() and writePacket(); the Scheduler hands the
\* commands to the hooks of the protocol, whose sockets fail or connect.
AsyncConfigs ==
    [reconnect : {TRUE}, backlogEnabled : BOOLEAN, backlogKeepOpen : {TRUE},
     reconnectInterval : {0}, backlogFlushOn : {LevelError},
     backlogQueue : {DefaultBacklogKB * 1024}, peerUp : BOOLEAN,
     asyncEnabled : {TRUE}]

\* the constructor of TcpProtocol with async.enabled
AInit ==
    /\ cfg \in AsyncConfigs
    /\ connected = FALSE
    /\ failed = FALSE
    /\ socket = 0
    /\ queue = EmptyQueue(cfg.backlogQueue)
    /\ tickCount = 0
    /\ socks = <<>>
    /\ tasks = <<>>
    /\ mq = <<>>
    /\ crashed = FALSE
    /\ now = 1
    /\ calls = <<>>
    /\ rejected = {}
    /\ faults = 0
    /\ ran = FALSE
    /\ qh = NoHistory
    /\ sched = NoScheduler
    /\ exec = NoExec
    /\ slog = NoLog
    /\ onErrors = 0
    /\ server = NoClient
    /\ sent = NothingSent

\* Scheduler._runCommand for the command just handed over by the batch ss,
\* awaited by _processCommands: the hook runs up to its first await
_runCommand(st, ss) ==
    IF ss.e.batch = <<>> THEN st
    ELSE LET h == ss.l.handed[Len(ss.l.handed)]
             t == Len(st.tasks) + 1
             a == [st EXCEPT !.tasks = Append(@, <<Frame("_processCommands", h.arg, FALSE),
                                                    Frame("_runCommand", h.arg, FALSE)>>)]
         IN  CASE h.hook = "implConnect" -> implConnect(a, t)
               [] h.hook = "implWritePacket" -> implWritePacket(a, t, h.arg)
               [] h.hook = "implDisconnect" -> implDisconnect(a, t)
               [] OTHER -> Complete(a, t, "ok")

\* the state after a job that ran protocol code (st) and Scheduler code (ss);
\* every task started is recorded in calls, a hook as the call "hook"
ACommit(st, ss, op, p) ==
    /\ ~st.over
    /\ connected' = st.connected
    /\ failed' = st.failed
    /\ socket' = st.socket
    /\ queue' = st.queue
    /\ tickCount' = st.tick
    /\ socks' = st.socks
    /\ tasks' = st.tasks
    /\ mq' = st.mq
    /\ crashed' = st.crashed
    /\ rejected' = st.rejected
    /\ onErrors' = st.errs
    /\ UNCHANGED <<server, sent>>
    /\ sched' = ss.s
    /\ exec' = ss.e
    /\ slog' = ss.l
    /\ calls' = IF Len(st.tasks) > Len(tasks)
                THEN Append(calls, [op |-> op, pkt |-> p, conn |-> connected, sync |-> ~ran])
                ELSE calls
    /\ UNCHANGED <<cfg, now, faults, qh>>

\* protocol.connect() in async mode: _startScheduler and _scheduleConnect
\* when there is no scheduler, nothing otherwise
AConnect ==
    LET c == [id |-> slog.ops + 1, action |-> ActionConnect, state |-> NoPacket]
        new == [Called(SS) EXCEPT !.s = [NoScheduler EXCEPT !.threshold = DefaultThreshold]]
    IN  /\ ~crashed
        /\ slog.ops < MaxAsyncOps
        /\ ACommit(S, IF sched.started
                      THEN Said(Called(SS), "connect", NoCommand, "none")
                      ELSE schedule(start(new), c), "connect", NoPacket)
        /\ UNCHANGED ran

\* protocol.writePacket(packet) in async mode: _scheduleWritePacket when there
\* is a scheduler, implWritePacket (not awaited) otherwise
AWritePacket ==
    \E lv \in WriteLevels :
        LET p == [id |-> slog.ops + 1, level |-> lv, len |-> 0]
            c == [id |-> slog.ops + 1, action |-> ActionWritePacket, state |-> p]
        IN  /\ ~crashed
            /\ slog.ops < MaxAsyncOps
            /\ IF sched.started
               THEN ACommit(S, schedule(Called(SS), c), "write", p)
               ELSE ACommit(implWritePacket(Started, Len(tasks) + 1, p),
                            Said(Called(SS), "write", c, "direct"), "write", p)
            /\ UNCHANGED ran

\* the setImmediate callback of _scheduleProcessing: _processCommands up to
\* its first await
AProcessTimerFires ==
    LET ss == _processCommands([SS EXCEPT !.s.processTimer = FALSE])
    IN  /\ Idle
        /\ sched.processTimer
        /\ ACommit(_runCommand(S, ss), ss, "hook", NoPacket)
        /\ ran' = TRUE

\* the event loop runs the oldest microtask: the continuation of
\* _processCommands after `await this._runCommand(command)`, whose catch
\* ignores the outcome, or a continuation of protocol code
ARunMicrotask ==
    /\ ~crashed
    /\ mq # <<>>
    /\ LET m == Head(mq)
           st == [S EXCEPT !.mq = Tail(mq)]
       IN  IF m.t # 0 /\ tasks[m.t][Len(tasks[m.t])].fn = "_processCommands"
           THEN LET ss == BatchResume(SS)
                IN  ACommit(_runCommand([st EXCEPT !.tasks[m.t] = <<>>], ss), ss,
                            "hook", NoPacket)
           ELSE ACommit(Resume(st, m.t, m.res), SS, "none", NoPacket)
    /\ ran' = TRUE

ANext ==
    \/ AConnect
    \/ AWritePacket
    \/ AProcessTimerFires
    \/ ARunMicrotask
    \/ SocketData
    \/ SocketError
    \/ SocketClose
    \/ PeerClose
    \/ ConnectTimeout

AsyncSpec == AInit /\ [][ANext]_vars

\* ------------------------------------------------- vocabulary of the claims
Sockets == 1..Len(socks)

IsRecord(f) == f.kind = "LogEntry"
IsHeader(f) == f.kind = "LogHeader"
Header == [kind |-> "LogHeader", id |-> 0]

\* the ids of the records submitted so far, in submission order
RECURSIVE Submitted(_)
Submitted(cs) ==
    IF cs = <<>> THEN <<>>
    ELSE IF Head(cs).op = "write"
         THEN <<[kind |-> "LogEntry", id |-> Head(cs).pkt.id]>> \o Submitted(Tail(cs))
         ELSE Submitted(Tail(cs))

\* nothing is left for the event loop to run: no microtask, and no socket with
\* an outstanding connect result or 'close' event
Quiescent ==
    /\ mq = <<>>
    /\ \A s \in Sockets : socks[s].status \in {"open", "closed"}

\* a connect attempt in flight: a socket being opened or in handshake
InFlight(s) == socks[s].status \in {"connecting", "open"} /\ ~socks[s].hs

\* this step is a call of writePacket / disconnect by the application
WriteStep == Len(calls') = Len(calls) + 1 /\ calls'[Len(calls')].op = "write"
DisconnectStep == Len(calls') = Len(calls) + 1 /\ calls'[Len(calls')].op = "disconnect"
Submission == calls'[Len(calls')].pkt

\* frame f is written to some socket in this step
WrittenInStep(f) ==
    \E s \in 1..Len(socks') :
        LET before == IF s <= Len(socks) THEN socks[s].wire ELSE <<>>
        IN  \E i \in (Len(before) + 1)..Len(socks'[s].wire) : socks'[s].wire[i] = f

\* the application called connect() and made every later call, all of them
\* writePacket, once the protocol was connected
ConnectedCalls ==
    /\ calls # <<>> /\ calls[1].op = "connect"
    /\ \A i \in 2..Len(calls) : calls[i].op = "write" /\ calls[i].conn

\* the default options: backlog, keep-open and reconnect all enabled
DefaultOptions == cfg.backlogEnabled /\ cfg.backlogKeepOpen /\ cfg.reconnect

\* the application called connect() and then, in the same synchronous block,
\* writePacket any number of times, and nothing else
FireAndForgetCalls ==
    /\ calls # <<>>
    /\ calls[1].op = "connect"
    /\ \A i \in 2..Len(calls) : calls[i].op = "write" /\ calls[i].sync

\* C1: fire-and-forget ordering.  Backlog, reconnect and keep-open enabled,
\* peer reachable and no fault: once the event loop has nothing left to run
\* after connect(); writePacket(r1); ...; writePacket(rN) made in one
\* synchronous block, one socket carries exactly Banner, Header, r1, ..., rN
\* and no other socket carries anything.
C1_FireAndForgetOrdering ==
    ( /\ cfg.backlogEnabled /\ cfg.reconnect /\ cfg.backlogKeepOpen /\ cfg.peerUp
      /\ faults = 0 /\ ~crashed
      /\ FireAndForgetCalls
      /\ Quiescent )
    => \E s \in Sockets :
          /\ socks[s].wire = <<Banner, Header>> \o Submitted(calls)
          /\ \A o \in Sockets \ {s} : socks[o].wire = <<>>

\* C2: single-flight connect.  At most one connect attempt (a socket being
\* opened or in handshake) exists at any time, and no socket carries more than
\* one Header.
C2_SingleFlightConnect ==
    /\ Cardinality({s \in Sockets : InFlight(s)}) <= 1
    /\ \A s \in Sockets : Len(SelectSeq(socks[s].wire, IsHeader)) <= 1

\* C3: synchronous disconnected-state buffering.  A writePacket call made
\* while not connected, with backlog and reconnect enabled, returns with the
\* backlog count one higher, whatever the record's level.
C3_SynchronousBuffering ==
    [][(WriteStep /\ ~connected /\ cfg.backlogEnabled /\ cfg.reconnect)
          => queue'.count = queue.count + 1]_vars

\* C4: flush on (re)connect.  Records buffered while not connected need no
\* further writePacket call: when every call so far was made while not
\* connected, no disconnect() was called, the protocol is connected and the
\* event loop has nothing left to run, the backlog is empty and the current
\* socket carries the Header followed by the buffered records in FIFO order.
C4_FlushOnConnect ==
    ( /\ connected /\ ~crashed /\ faults = 0 /\ socket # 0
      /\ cfg.backlogEnabled /\ cfg.reconnect /\ cfg.backlogKeepOpen
      /\ \A i \in 1..Len(calls) : ~calls[i].conn /\ calls[i].op # "disconnect"
      /\ Quiescent )
    => /\ queue.count = 0
       /\ SelectSeq(socks[socket].wire, IsRecord) = Submitted(calls)

\* C5: connected-state submit.  A writePacket call made while connected (and
\* with no continuation pending) writes the record's frame to a socket as
\* part of that call.
C5_ConnectedSubmit ==
    [][(WriteStep /\ connected /\ mq = <<>>) => WrittenInStep(format(Submission))]_vars

\* record p is held by a suspended call that took it out of the backlog to
\* forward it
HeldInFlight(ts, p) ==
    \E t \in DOMAIN ts : \E k \in 1..Len(ts[t]) : ts[t][k].pkt = p

\* C6: no silent loss.  A record leaves the backlog only in a step that writes
\* it to a socket or hands it to a forward that is still in progress, in a
\* writePacket step that evicts it on overflow, or in a disconnect() call.
C6_NoSilentLoss ==
    [][\A i \in 1..Len(queue.items) :
          (\A j \in 1..Len(queue'.items) : queue'.items[j] # queue.items[i])
             => \/ WrittenInStep(format(queue.items[i]))
                \/ HeldInFlight(tasks', queue.items[i])
                \/ DisconnectStep
                \/ WriteStep /\ queue.size + _getPacketSize(Submission) + OVERHEAD
                                   > queue.backlog]_vars

\* C7: submission order on the wire.  On every socket the records appear in
\* the order in which they were submitted (a later submission never precedes
\* an earlier one).
C7_SubmissionOrder ==
    (DefaultOptions /\ cfg.peerUp /\ faults = 0 /\ ConnectedCalls) =>
    \A s \in Sockets :
        LET recs == SelectSeq(socks[s].wire, IsRecord)
        IN  \A i, j \in 1..Len(recs) : i < j => recs[i].id <= recs[j].id

\* C8: header first.  A socket whose handshake has completed carries the
\* client banner and then the Header, on that same socket, before anything
\* else.
C8_HeaderFirst ==
    \A s \in Sockets :
        socks[s].hs => /\ Len(socks[s].wire) >= 2
                       /\ socks[s].wire[1] = Banner
                       /\ socks[s].wire[2] = Header

\* C9: reconnect time gate.  Two sockets opened by _reconnect are opened at
\* least reconnectInterval apart: a reconnect request that follows another by
\* less than the interval opens no socket.
C9_ReconnectTimeGate ==
    \A a, b \in Sockets :
        (a < b /\ socks[a].by = "_reconnect" /\ socks[b].by = "_reconnect")
            => socks[b].at - socks[a].at >= cfg.reconnectInterval

\* C10 as stated: with reconnect disabled, a writePacket call made while not
\* connected changes nothing, for every setting of backlog.enabled and
\* keep_open: nothing is queued, written or scheduled, no socket is opened.
C10_DropWhenReconnectDisabled_AnyKeepOpen ==
    [][(WriteStep /\ ~connected /\ ~cfg.reconnect)
          => /\ UNCHANGED <<queue, socks, socket, mq, connected, failed>>
             /\ tasks' = Append(tasks, <<>>)]_vars

\* C10 amended: with reconnect disabled and keep-open in effect, a writePacket
\* call made while not connected changes nothing, for every setting of
\* backlog.enabled: nothing is queued, written or scheduled, no socket opened.
C10_DropWhenReconnectDisabled ==
    [][(WriteStep /\ ~connected /\ ~cfg.reconnect /\ _keepOpen)
          => /\ UNCHANGED <<queue, socks, socket, mq, connected, failed>>
             /\ tasks' = Append(tasks, <<>>)]_vars

\* C10 witness: a record was submitted to a protocol that never opened a
\* socket, reconnect disabled and keep-open in effect, and it was dropped.
C10_Witness ==
    /\ ~cfg.reconnect /\ _keepOpen /\ cfg.backlogEnabled
    /\ calls # <<>> /\ calls[Len(calls)].op = "write" /\ ~calls[Len(calls)].conn
    /\ socks = <<>> /\ queue.count = 0 /\ mq = <<>>

\* C11: drop when the backlog is disabled.  With reconnect enabled and the
\* backlog disabled, a record passed to writePacket while not connected is
\* dropped: the backlog stays empty and the record is on no socket, also after
\* a connection has been established.
C11_DropWhenBacklogDisabled ==
    (cfg.reconnect /\ ~cfg.backlogEnabled) =>
        /\ queue.count = 0
        /\ \A i \in 1..Len(calls) :
              (calls[i].op = "write" /\ ~calls[i].conn) =>
                 \A s \in Sockets : \A k \in 1..Len(socks[s].wire) :
                     socks[s].wire[k] # format(calls[i].pkt)

\* ---------------------------------------------------- PacketQueue claims
Cost(p) == _getPacketSize(p) + OVERHEAD

RECURSIVE TotalCost(_)
TotalCost(items) == IF items = <<>> THEN 0 ELSE Cost(Head(items)) + TotalCost(Tail(items))

IsSuffix(a, b) == Len(a) <= Len(b) /\ a = SubSeq(b, Len(b) - Len(a) + 1, Len(b))

QPushStep == Len(qh'.pushed) = Len(qh.pushed) + 1
QPushed == qh'.pushed[Len(qh'.pushed)]
QCapacityStep == queue'.backlog # queue.backlog

\* C12: backlog bound.  The queue's size is the summed cost of its records
\* and never exceeds the capacity; a push or a change of capacity leaves a
\* suffix of the records (it evicts from the head only); pushing a record
\* whose cost alone exceeds the capacity leaves the queue empty.
C12_BacklogBound ==
    /\ [](/\ queue.size <= queue.backlog
          /\ queue.size = TotalCost(queue.items)
          /\ queue.count = Len(queue.items))
    /\ [][/\ QPushStep => IsSuffix(queue'.items, Append(queue.items, QPushed))
          /\ QCapacityStep => IsSuffix(queue'.items, queue.items)
          /\ (QPushStep /\ Cost(QPushed) > queue.backlog)
                 => queue'.items = <<>> /\ queue'.size = 0]_vars

\* C12 witness: pushes have evicted two records from the head of a queue
\* that still holds two, nothing having been popped.
C12_Witness ==
    /\ Len(qh.evicted) >= 2 /\ qh.popped = <<>>
    /\ queue.count >= 2 /\ queue.size <= queue.backlog

RECURSIVE Sum(_)
Sum(ns) == IF ns = <<>> THEN 0 ELSE Head(ns) + Sum(Tail(ns))

\* records evicted by the step, and the bytes the step had to free
QEvictedInStep == Len(qh'.evicted) - Len(qh.evicted)
QOverflow ==
    LET need == IF QPushStep THEN queue.size + Cost(QPushed) ELSE queue.size
    IN  IF need > queue'.backlog THEN need - queue'.backlog ELSE 0
QFreed ==
    (IF QPushStep THEN queue.size + Cost(QPushed) ELSE queue.size) - queue'.size

\* C13: drop accounting.  With the drop hook installed, a push or a change
\* of capacity calls the hook at most once, exactly when it evicted at least
\* one record and with the number it evicted (a pop never calls it); the
\* counts reported so far add up to the number of records evicted so far; and
\* the bytes freed by the operation are at least its overflow.
C13_DropAccounting ==
    /\ [](queue.hook => Sum(queue.dropped) = Len(qh.evicted))
    /\ [][queue.hook =>
            /\ queue'.dropped = IF QEvictedInStep > 0
                                THEN Append(queue.dropped, QEvictedInStep)
                                ELSE queue.dropped
            /\ QFreed >= QOverflow]_vars

\* C13 witness: the hook has been called twice, once for an operation that
\* evicted several records at once.
C13_Witness ==
    /\ queue.hook /\ Len(queue.dropped) >= 2
    /\ \E i \in 1..Len(queue.dropped) : queue.dropped[i] >= 2
    /\ Sum(queue.dropped) = Len(qh.evicted)

InSeq(x, seq) == \E k \in 1..Len(seq) : seq[k] = x
QKept(p) == ~InSeq(p, qh.evicted) /\ ~InSeq(p, queue.items)

\* C14: backlog FIFO.  The records removed so far (popped or evicted, in the
\* order they left) followed by the records still queued are the records
\* pushed, in push order: every removal took the oldest record; and the
\* records returned by pop are the pushed records that were not evicted, in
\* push order.
C14_BacklogFifo ==
    /\ qh.removed \o queue.items = qh.pushed
    /\ qh.popped = SelectSeq(qh.pushed, QKept)

\* C14 witness: records have been popped and evicted, and some are queued.
C14_Witness ==
    /\ Len(qh.popped) >= 2 /\ qh.evicted # <<>> /\ queue.items # <<>>
    /\ qh.removed # qh.popped \o qh.evicted
    /\ qh.removed # qh.evicted \o qh.popped

IsWrite(c) == c.action = ActionWritePacket
NotWrite(c) == c.action # ActionWritePacket
CommandCost(c) == CommandSize(c) + SQ_OVERHEAD

RECURSIVE CostOf(_)
CostOf(seq) == IF seq = <<>> THEN 0 ELSE CommandCost(Head(seq)) + CostOf(Tail(seq))

RECURSIVE WithoutOldestWrites(_, _)
\* seq without its k oldest Write commands
WithoutOldestWrites(seq, k) ==
    IF k = 0 \/ seq = <<>> THEN seq
    ELSE IF IsWrite(Head(seq)) THEN WithoutOldestWrites(Tail(seq), k - 1)
    ELSE <<Head(seq)>> \o WithoutOldestWrites(Tail(seq), k)

\* the bytes freed by removing the k oldest Write commands of seq
FreedBy(seq, k) == CostOf(SubSeq(SelectSeq(seq, IsWrite), 1, k))

\* the number of Write commands trim(n) is to remove from seq
TrimCount(seq, n) ==
    LET w == Len(SelectSeq(seq, IsWrite))
        enough == {k \in 0..w : FreedBy(seq, k) >= n}
    IN  IF enough = {} THEN w ELSE CHOOSE k \in enough : \A j \in enough : k <= j

\* C15: trim(n) removes exactly the oldest Write commands, as few as free n
\* bytes or all of them when they free less; commands of the other kinds stay,
\* the remaining commands keep their order, and trim returns true iff the
\* bytes it freed reach n.
C15_TrimOnlyWrites ==
    \A i \in 1..Len(slog.trims) :
        LET t == slog.trims[i]
            k == TrimCount(t.before, t.size)
        IN  /\ t.after = WithoutOldestWrites(t.before, k)
            /\ SelectSeq(t.after, NotWrite) = SelectSeq(t.before, NotWrite)
            /\ t.ok = (FreedBy(t.before, k) >= t.size)
            /\ CostOf(t.before) - CostOf(t.after) = FreedBy(t.before, k)

\* a trim passed over a Connect and a Disconnect, removed a Write on either
\* side of them and still freed too little
C15_Witness ==
    \E i \in 1..Len(slog.trims) :
        LET t == slog.trims[i]
        IN  /\ ~t.ok
            /\ Len(t.before) >= Len(t.after) + 2
            /\ Len(t.after) >= 2
            /\ \E a, b \in 1..Len(t.before) :
                  /\ a < b
                  /\ IsWrite(t.before[a])
                  /\ NotWrite(t.before[b])
                  /\ \E c \in (b + 1)..Len(t.before) : IsWrite(t.before[c])
\* the commands schedule() accepted that were neither handed to a hook nor
\* removed by trim
Undrained == Len(slog.scheduled) - Len(slog.handed) - Len(slog.removed)

\* C16: with no stop() and no clear(), with hooks that always complete, every
\* command schedule() accepted and trim did not remove is eventually handed to
\* its hook, however many commands are queued and even when no further
\* schedule() call is made.
C16_DrainLiveness == []<>(Undrained = 0)
HandedCommands == [i \in 1..Len(slog.handed) |-> slog.handed[i].cmd]
WasHanded(c) == \E i \in 1..Len(slog.handed) : slog.handed[i].cmd = c

\* the hook each kind of command is meant for
KindHook ==
    (ActionConnect :> "implConnect") @@ (ActionWritePacket :> "implWritePacket") @@
    (ActionDisconnect :> "implDisconnect") @@ (ActionDispatch :> "implDispatch")

\* C17: the commands reach the protocol in the order they were enqueued, each
\* at most once, each through the hook of its kind, Write and Dispatch with
\* the state the command carries.
C17_FifoDispatch ==
    /\ HandedCommands = SelectSeq(slog.scheduled, WasHanded)
    /\ \A i \in 1..Len(slog.handed) :
          LET h == slog.handed[i]
          IN  /\ h.hook = KindHook[h.cmd.action]
              /\ h.cmd.action \in {ActionWritePacket, ActionDispatch} => h.arg = h.cmd.state

\* a command of each kind has been handed to the protocol
C17_Witness ==
    /\ Len(slog.handed) = 4
    /\ \A a \in Actions : \E i \in 1..4 : slog.handed[i].cmd.action = a
\* C18: once stop() has been called no WritePacket and no Connect command is
\* handed to the protocol, not even by a batch that was in flight; only
\* Disconnect commands are.
C18_StopDiscardsWrites ==
    \A i \in 1..Len(slog.handed) :
        slog.handed[i].stopped => slog.handed[i].cmd.action = ActionDisconnect
\* the step is a call of op: every call counts in slog.ops and names itself
IsCall(op) == slog'.ops = slog.ops + 1 /\ slog'.last.op = op

Refused(c) == ~sched.started \/ sched.stopped \/ CommandSize(c) > sched.threshold

\* the queue after the step is the queue before it, less some of its oldest
\* Write commands, with c appended at the tail
AppendedAtTail(c) ==
    LET after == sched'.queue.items
        kept == SubSeq(after, 1, Len(after) - 1)
    IN  /\ after # <<>>
        /\ after[Len(after)] = c
        /\ kept = WithoutOldestWrites(sched.queue.items,
                                      Len(sched.queue.items) - Len(kept))

ScheduleStep ==
    IsCall("schedule") =>
        LET c == slog'.last.cmd
        IN  IF Refused(c)
            THEN /\ slog'.last.ret = "false"
                 /\ sched' = sched
                 /\ exec' = exec
            ELSE /\ slog'.last.ret = "true"
                 /\ AppendedAtTail(c)
                 /\ sched'.processing \/ sched'.processTimer
                 /\ exec' = exec

\* C19: schedule() never suspends; not started, stopped, or a command whose
\* cost alone exceeds the threshold: it returns false and changes nothing;
\* otherwise the command is appended at the tail, the executor is running or
\* armed afterwards, and it returns true.
C19_ScheduleNonBlocking == [][ScheduleStep]_vars

\* schedule() has just accepted a command after trimming a Write for it
C19_Witness ==
    /\ slog.last.op = "schedule"
    /\ slog.last.ret = "true"
    /\ sched.queue.items # <<>>
    /\ sched.queue.items[Len(sched.queue.items)] = slog.last.cmd
    /\ sched.processTimer
    /\ slog.trims # <<>>
    /\ slog.trims[Len(slog.trims)].before # slog.trims[Len(slog.trims)].after
    /\ Len(slog.trims[Len(slog.trims)].after) + 1 = Len(sched.queue.items)
\* the step makes a caller of scheduleAsync wait: its command joins the waiters
Suspends(c) ==
    /\ sched'.throttleWaiters = Append(sched.throttleWaiters, c)
    /\ sched'.queue = sched.queue
    /\ Len(slog'.scheduled) = Len(slog.scheduled)

\* the step enqueues c at the tail and removes nothing
EnqueuesOnly(c) ==
    /\ sched'.queue.items = Append(sched.queue.items, c)
    /\ slog'.trims = slog.trims
    /\ slog'.removed = slog.removed

ScheduleAsyncStep ==
    IsCall("scheduleAsync") =>
        LET c == slog'.last.cmd
            full == sched.queue.size + CommandSize(c) > sched.threshold
        IN  IF Refused(c) THEN slog'.last.ret = "false" /\ sched' = sched
            ELSE IF sched.throttle /\ ~failed
            THEN /\ full <=> slog'.last.ret = "suspended"
                 /\ full => Suspends(c)
                 /\ ~full => slog'.last.ret = "true" /\ EnqueuesOnly(c)
            ELSE /\ slog'.last.ret = "true"
                 /\ sched'.throttleWaiters = sched.throttleWaiters
                 /\ AppendedAtTail(c)
                 /\ full => /\ slog'.trims # slog.trims
                            /\ slog'.trims[Len(slog'.trims)].size = CommandSize(c)
                            /\ slog'.trims[Len(slog'.trims)].before = sched.queue.items

\* a released caller of scheduleAsync runs again: it enqueues only if its
\* command fits, waits again if it does not, gives up if the scheduler stopped
ResumeStep ==
    (exec.released # <<>> /\ exec'.released = Tail(exec.released)
        /\ slog'.ops = slog.ops /\ slog'.last.op = "resume") =>
        LET c == Head(exec.released)
            full == sched.queue.size + CommandSize(c) > sched.threshold
        IN  /\ slog'.last.cmd = c
            /\ slog'.trims = slog.trims
            /\ slog'.removed = slog.removed
            /\ IF sched.stopped THEN slog'.last.ret = "false" /\ sched'.queue = sched.queue
               ELSE IF full THEN slog'.last.ret = "suspended" /\ Suspends(c)
               ELSE slog'.last.ret = "true" /\ EnqueuesOnly(c)

\* C20: with throttle on and the protocol not failed, scheduleAsync suspends
\* its caller iff queue.size + cost > threshold, trims nothing, and enqueues
\* the command only when queue.size + cost <= threshold, at once or when the
\* released caller runs again; with the protocol failed (or throttle off) it
\* does not suspend and trims the oldest Writes instead.
C20_ThrottleBackPressure ==
    /\ [][ScheduleAsyncStep]_vars
    /\ [][ResumeStep]_vars

\* with throttle on, a caller that was suspended because the queue was full
\* has been released after an earlier command was handed to its hook, and
\* has now enqueued its own command
C20_Witness ==
    /\ sched.throttle
    /\ \E i \in 1..Len(slog.scheduled) :
          /\ \E j \in 1..Len(slog.handed) : slog.handed[j].cmd.id < slog.scheduled[i].id
          /\ slog.last.op = "resume"
          /\ slog.last.ret = "true"
          /\ slog.last.cmd = slog.scheduled[i]
\* the callers of scheduleAsync that are suspended: waiting for a release, or
\* released and not yet run again
Suspended == sched.throttleWaiters \o exec.released

\* the step enqueues the command of a scheduleAsync caller, at the call or
\* when the released caller runs again
AsyncEnqueues(c) ==
    /\ slog'.last.cmd = c
    /\ slog'.last.ret = "true"
    /\ \/ IsCall("scheduleAsync")
       \/ exec.released # <<>> /\ exec'.released = Tail(exec.released)
             /\ slog'.ops = slog.ops /\ slog'.last.op = "resume"
    /\ Len(slog'.scheduled) = Len(slog.scheduled) + 1

\* C21: the commands of scheduleAsync callers enter the queue in the order of
\* the calls: no command is enqueued while the command of an earlier caller
\* (calls are numbered by command id) is still suspended.
C21_ThrottleFifo ==
    [][\A c \in {slog'.last.cmd} :
          AsyncEnqueues(c) =>
             \A k \in 1..Len(Suspended) : ~(Suspended[k].id < c.id)]_vars
IsResume ==
    /\ exec.released # <<>>
    /\ exec'.released = Tail(exec.released)
    /\ slog'.ops = slog.ops
    /\ slog'.last.op = "resume"

HandedAt(c, handed) ==
    IF \E i \in 1..Len(handed) : handed[i].cmd = c
    THEN CHOOSE i \in 1..Len(handed) : handed[i].cmd = c
    ELSE 0

QueuedWrites == {sched.queue.items[k] : k \in {j \in 1..Len(sched.queue.items) :
                                                  IsWrite(sched.queue.items[j])}}

AsyncDisconnectStep ==
    IsCall("disconnect") =>
        LET d == slog'.last.cmd
        IN  IF slog'.last.ret = "keep"
            THEN \A w \in QueuedWrites :
                    /\ ~InSeq(w, slog'.removed)
                    /\ HandedAt(d, slog'.handed) > 0 =>
                          /\ HandedAt(w, slog'.handed) > 0
                          /\ HandedAt(w, slog'.handed) < HandedAt(d, slog'.handed)
            ELSE \A w \in QueuedWrites :
                    /\ InSeq(w, slog'.removed)
                    /\ HandedAt(w, slog'.handed) = 0

\* C23: an async disconnect() with clearOnDisconnect = false discards none
\* of the Writes queued before it and hands them to implWritePacket before
\* its Disconnect reaches implDisconnect; with clearOnDisconnect = true the
\* queued Writes are discarded.
C23_AsyncDisconnectDrains == [][AsyncDisconnectStep]_vars
\* the promise of application call t settles in this step
Settles(t) ==
    /\ t \in 1..Len(tasks')
    /\ tasks'[t] = <<>>
    /\ t > Len(tasks) \/ tasks[t] # <<>>

\* the promise of call t, a call of op, resolves in this step
Resolves(t, op) ==
    /\ Settles(t)
    /\ calls'[t].op = op
    /\ t \notin rejected'

AllSettled == mq = <<>> /\ \A u \in 1..Len(tasks) : tasks[u] = <<>>

GracefulCalls ==
    /\ Len(calls) >= 3
    /\ calls[1].op = "connect"
    /\ calls[Len(calls)].op = "disconnect" /\ calls[Len(calls)].conn
    /\ \A i \in 2..(Len(calls) - 1) : calls[i].op = "write" /\ calls[i].conn

\* C25: graceful disconnect flushes.  Records submitted while connected and
\* followed by disconnect(): once every promise has resolved, with no fault,
\* the socket that was connected carries every one of these records.
C25_GracefulDisconnectFlushes ==
    (GracefulCalls /\ AllSettled /\ rejected = {} /\ faults = 0 /\ ~crashed) =>
        \A i \in 2..(Len(calls) - 1) :
            \E s \in Sockets : \E k \in 1..Len(socks[s].wire) :
                socks[s].est /\ socks[s].wire[k] = format(calls[i].pkt)
\* call t waits for the 'close' event of a socket that has already emitted it
AwaitsDeadSocket(t) ==
    \E s \in Sockets : socks[s].status = "closed" /\ InSeq(t, socks[s].once)

\* call t is suspended and nothing is left that would resume it: no pending
\* continuation, no socket whose connect promise or 'close' event it awaits
Hung(t) ==
    /\ tasks[t] # <<>>
    /\ \A k \in 1..Len(mq) : mq[k].t # t
    /\ \A s \in Sockets :
          /\ ~(socks[s].waiter = t /\ socks[s].settled = "pending"
                 /\ socks[s].status # "closed")
          /\ ~(InSeq(t, socks[s].once) /\ socks[s].status # "closed")

\* C26: a sync disconnect() is never left waiting for an event that cannot
\* come, so its promise settles as soon as the pending continuations and the
\* 'close' event of the destroyed socket have run.
C26_DisconnectTerminates ==
    \A t \in 1..Len(calls) : calls[t].op = "disconnect" => ~Hung(t)
\* C27: no throw on transport faults.  In sync mode no promise returned by
\* connect() or writePacket() is ever rejected, whatever happens to the
\* connection; a fault leaves the protocol failed and not connected.
C27_NoThrowOnFaults ==
    \A t \in rejected : calls[t].op \notin {"connect", "write"}
\* the time gate of _reconnect lets an attempt through
GateOpen == ~(cfg.reconnectInterval > 0 /\ (now - tickCount) < cfg.reconnectInterval)

\* the application never called connect()
NoConnectCall == \A t \in 1..Len(calls) : calls[t].op # "connect"

\* only writePacket was called, no gate, no fault, and nothing is left to run
WritesAtRest ==
    /\ DefaultOptions /\ cfg.peerUp /\ faults = 0 /\ ~crashed
    /\ cfg.reconnectInterval = 0
    /\ calls # <<>> /\ \A t \in 1..Len(calls) : calls[t].op = "write"
    /\ Quiescent /\ AllSettled

\* every submitted record is on an established connection behind a LogHeader
WritesDelivered ==
    \A t \in 1..Len(calls) :
        \E s \in Sockets : \E h, k \in 1..Len(socks[s].wire) :
            /\ socks[s].est /\ h < k
            /\ IsHeader(socks[s].wire[h])
            /\ socks[s].wire[k] = format(calls[t].pkt)

\* C29: write-triggered reconnect.  With reconnect, keepOpen and the backlog
\* enabled and a reachable peer, a writePacket issued while the protocol is
\* not connected, with no connect() call and no attempt in flight, opens a
\* socket in the same step when the time gate allows it; and once nothing is
\* left to run after such writes the protocol is connected and every
\* submitted record is on the wire of an established connection, behind its
\* LogHeader.
C29_WriteTriggersReconnect ==
    /\ [][(WriteStep /\ ~connected /\ NoConnectCall /\ DefaultOptions /\ cfg.peerUp
             /\ GateOpen /\ \A s \in Sockets : ~InFlight(s))
            => Len(socks') = Len(socks) + 1]_vars
    /\ [](WritesAtRest => (connected /\ WritesDelivered))

\* this step is the continuation of a connect attempt awaited by implConnect
\* or _reconnect, resumed with outcome res
AttemptResumes(res) ==
    /\ mq # <<>> /\ ~crashed /\ calls' = calls /\ tasks' # tasks
    /\ Head(mq).t # 0 /\ Head(mq).res = res
    /\ LET stack == tasks[Head(mq).t]
       IN  stack[Len(stack)].fn \in {"implConnect", "_reconnect"}

HookSettles ==
    /\ mq # <<>> /\ ~crashed /\ Head(mq).t # 0
    /\ tasks[Head(mq).t][Len(tasks[Head(mq).t])].fn = "_processCommands"
    /\ tasks'[Head(mq).t] = <<>>

\* the executor goes on: the next queued command is handed to its hook, or
\* the batch ends when the queue is empty or the batch is full
ExecutorGoesOn ==
    IF sched.queue.count > 0 /\ exec.batch[1].processed + 1 < BUFFER_SIZE
    THEN /\ Len(slog'.handed) = Len(slog.handed) + 1
         /\ slog'.handed[Len(slog'.handed)].cmd = sqHead(sched.queue)
    ELSE ~sched'.processing /\ slog'.handed = slog.handed

\* connect attempts that failed
FailedAttempts == {s \in Sockets : socks[s].settled = "err"}

\* C28: async-mode error absorption.  Whatever the outcome of a command's
\* hook, the executor goes on to the next queued command; no promise handed
\* to the application is rejected; a failed attempt leaves failed = true once
\* it is handled, and the observer is called once per failure: onError has
\* been called at most as many times as connect attempts have failed.
C28_AsyncErrorAbsorption ==
    /\ [][HookSettles => ExecutorGoesOn]_vars
    /\ [](rejected = {})
    /\ [](onErrors <= Cardinality(FailedAttempts))

\* this step is the loss of the established current connection: the peer
\* closes socket s after the handshake and its 'close' event is handled
ConnectionLost ==
    \E s \in Sockets :
        /\ socket = s /\ connected
        /\ socks[s].status = "open" /\ socks[s].hs
        /\ socks'[s].status = "closed"
        /\ faults' = faults + 1

\* C31: loss of an established connection.  When the peer closes the current
\* connection after the handshake the protocol is no longer connected, failed
\* is set and the reconnect tick count is set to the time of the loss.
C31_ConnectionLoss ==
    [][ConnectionLost => (~connected' /\ failed' /\ tickCount' = now)]_vars

\* the backlog is enabled and the connection is not kept open
KeepClosed == cfg.backlogEnabled /\ ~cfg.backlogKeepOpen

\* the promise of some writePacket call resolves in this step
WriteCompletes == \E t \in 1..Len(calls') : Resolves(t, "write")

\* this step is a call of connect() by the application
ConnectStep == Len(calls') = Len(calls) + 1 /\ calls'[Len(calls')].op = "connect"

WritesOnly == \A k \in 1..Len(sched.queue.items) : IsWrite(sched.queue.items[k])

\* C33: the command queue stays within its capacity.  While the queue holds
\* only Write commands its size in bytes, the sum of cost + 24 over the queued
\* commands, does not exceed the threshold.
C33_WithinCapacity ==
    WritesOnly => sched.queue.size <= sched.threshold

\* C34: queue accounting.  For the PacketQueue and the SchedulerQueue, after
\* any sequence of their operations the size in bytes is the sum of cost + 24
\* over the items queued, the count is their number, and the list is empty
\* (head and tail null) exactly when the count is 0.
C34_QueueAccounting ==
    /\ queue.size = TotalCost(queue.items)
    /\ queue.count = Len(queue.items)
    /\ (queue.items = <<>>) <=> (queue.count = 0)
    /\ sched.queue.size = CostOf(sched.queue.items)
    /\ sched.queue.count = Len(sched.queue.items)
    /\ (sched.queue.items = <<>>) <=> (sched.queue.count = 0)

\* C34 witness: both queues hold items after items were added to and removed
\* from each: a record was evicted or popped, a command dequeued or trimmed.
C34_Witness ==
    /\ queue.count >= 1 /\ qh.removed # <<>>
    /\ sched.queue.count >= 1
    /\ Len(slog.scheduled) > sched.queue.count
    /\ queue.size > 0 /\ sched.queue.size > 0

\* hooks of the protocol started by the scheduler and not yet settled: the one
\* awaited by _processCommands and the one awaited by _drain
HooksInProgress ==
    (IF exec.batch # <<>> THEN 1 ELSE 0) + (IF exec.drain # <<>> THEN 1 ELSE 0)

\* C35: single executor.  At most one protocol hook invoked by the scheduler
\* is in progress at any time, also when stop() drains Disconnect commands
\* while a batch is in flight.
C35_SingleExecutor == HooksInProgress <= 1

\* something is left that will resume the suspended callers: a pending
\* processing timer, a hook in progress, or a continuation already released
ExecutorPending ==
    sched.processTimer \/ exec.batch # <<>> \/ exec.drain # <<>> \/ exec.released # <<>>

\* C36: throttle liveness.  With throttle = true, the scheduler started and
\* hooks that complete, no caller stays suspended in scheduleAsync forever:
\* while a caller is suspended the executor has work pending, at the end of
\* which the waiters are released.
C36_ThrottleLiveness ==
    (sched.started /\ sched.throttleWaiters # <<>>) => ExecutorPending


\* the connect deadline of socket s expired before any banner arrived from the
\* peer that accepted the connection
DeadlineExpired(s) == cfg.peerUp /\ socks[s].settled = "err" /\ ~socks[s].est

\* C37: connect deadline.  When the peer never sends a banner and the connect
\* deadline of the only attempt has expired, then once nothing is left to run
\* the socket is closed, the protocol is not connected, failed is set, the
\* onError observer has been called, and the caller is no longer waiting.
C37_ConnectDeadline ==
    \A s \in Sockets :
        (Len(socks) = 1 /\ DeadlineExpired(s) /\ Quiescent /\ ~crashed) =>
            /\ socks[s].status = "closed"
            /\ ~connected /\ failed
            /\ tasks[socks[s].waiter] = <<>>
            /\ onErrors >= 1

\* ------------------------------------------------- BinaryFormatter and frames
\* Bytes are numbers 0..255, buffers are sequences of bytes, strings are
\* sequences of code points.  A field a packet does not have is undefined.
PacketType == [ControlCommand |-> 1, LogEntry |-> 4, Watch |-> 5,
               ProcessFlow |-> 6, LogHeader |-> 7, Stream |-> 8]
\* 'SmartInspect Node.js Library v1.0.0\n'
CLIENT_BANNER == <<83, 109, 97, 114, 116, 73, 110, 115, 112, 101, 99, 116, 32,
                   78, 111, 100, 101, 46, 106, 115, 32, 76, 105, 98, 114, 97,
                   114, 121, 32, 118, 49, 46, 48, 46, 48, 10>>
DAY_OFFSET == 25569
MsPerDay == 86400000
MaxRecords == 2

\* buf.writeInt16LE(value, 0) for -32768 <= value <= 32767
writeInt16(value) ==
    LET u == (value + 65536) % 65536 IN <<u % 256, u \div 256>>

\* buf.writeInt32LE(value, 0): two's complement, least significant byte first
writeInt32(value) ==
    LET w == IF value >= 0 THEN value ELSE (value + 2147483647) + 1
    IN  <<w % 256, (w \div 256) % 256, (w \div 65536) % 256,
          (w \div 16777216) + (IF value >= 0 THEN 0 ELSE 128)>>

\* date.getTime() / 86400000 + DAY_OFFSET, for dates at midnight UTC
dateToTimestamp(ms) == (ms \div MsPerDay) + DAY_OFFSET

\* buf.writeDoubleLE(value, 0): the IEEE-754 binary64 bytes of the OLE dates
\* the records below carry
writeDouble(days) ==
    CASE days = 25569 -> <<0, 0, 0, 0, 64, 248, 216, 64>>
      [] days = 25570 -> <<0, 0, 0, 0, 128, 248, 216, 64>>

\* the UTF-8 bytes of one code point below 65536
Utf8Char(c) ==
    IF c < 128 THEN <<c>>
    ELSE IF c < 2048 THEN <<192 + (c \div 64), 128 + (c % 64)>>
    ELSE <<224 + (c \div 4096), 128 + ((c \div 64) % 64), 128 + (c % 64)>>

RECURSIVE Utf8(_)
Utf8(str) == IF str = <<>> THEN <<>> ELSE Utf8Char(Head(str)) \o Utf8(Tail(str))

\* encodeString(packet[field]): Buffer.from(value, 'utf8'), or null for a
\* missing value.  The callers write length 0 and push no part for null, which
\* are the bytes of the empty buffer.
encodeString(packet, field) ==
    IF field \in DOMAIN packet THEN Utf8(packet[field]) ELSE <<>>

\* packet.data || null, a Buffer; as for encodeString
dataBytes(packet) == IF "data" \in DOMAIN packet THEN packet.data ELSE <<>>

compileLogHeader(packet) ==
    LET contentBytes == encodeString(packet, "content")
    IN  writeInt32(Len(contentBytes)) \o contentBytes

compileControlCommand(packet) ==
    writeInt32(packet.controlCommandType) \o writeInt32(Len(dataBytes(packet)))
        \o dataBytes(packet)

compileWatch(packet) ==
    LET nameBytes == encodeString(packet, "name")
        valueBytes == encodeString(packet, "value")
    IN  writeInt32(Len(nameBytes)) \o writeInt32(Len(valueBytes))
            \o writeInt32(packet.watchType)
            \o writeDouble(dateToTimestamp(packet.timestamp))
            \o nameBytes \o valueBytes

\* the values of PacketType
KnownPacketTypes == {PacketType[n] : n \in DOMAIN PacketType}

\* BinaryFormatter.compile: this.stream (LogEntry, ProcessFlow and Stream
\* records are not among the records written here)
compile(packet) ==
    CASE packet.packetType = PacketType.LogHeader -> compileLogHeader(packet)
      [] packet.packetType = PacketType.Watch -> compileWatch(packet)
      [] packet.packetType = PacketType.ControlCommand ->
            compileControlCommand(packet)
      [] packet.packetType \notin KnownPacketTypes -> <<>>

\* BinaryFormatter.format: the bytes handed to socket.write
formatBytes(packet) ==
    LET stream == compile(packet)
        size == Len(stream)
    IN  IF size > 0
        THEN writeInt16(packet.packetType) \o writeInt32(size) \o stream
        ELSE <<>>

\* the records the application writes: content and names with ASCII and
\* two-byte characters, present and missing fields, a negative watchType, and
\* a record of a kind compile does not know
Records ==
    {[packetType |-> PacketType.LogHeader],
     [packetType |-> PacketType.LogHeader, content |-> <<97, 233>>],
     [packetType |-> PacketType.ControlCommand, controlCommandType |-> 0],
     [packetType |-> PacketType.ControlCommand, controlCommandType |-> 1,
      data |-> <<7, 10>>],
     [packetType |-> PacketType.Watch, name |-> <<233>>, value |-> <<>>,
      watchType |-> -1, timestamp |-> MsPerDay],
     [packetType |-> 99]}

\* buffer.readUInt16LE(off), buffer.readUInt32LE(off); off counts from 0
readUInt16LE(buffer, off) == buffer[off + 1] + 256 * buffer[off + 2]
readUInt32LE(buffer, off) ==
    buffer[off + 1] + 256 * buffer[off + 2] + 65536 * buffer[off + 3]
        + 16777216 * buffer[off + 4]

\* buffer.slice(from): the bytes from offset `from` on
SliceFrom(buffer, from) == SubSeq(buffer, from + 1, Len(buffer))

\* MockSmartInspectServer._processBuffer (onPacket unset, closeAfterPackets 0):
\* the packets pushed and the buffer returned
RECURSIVE _processBuffer(_, _)
_processBuffer(packets, buffer) ==
    IF Len(buffer) < 6 THEN [packets |-> packets, buffer |-> buffer]
    ELSE LET packetType == readUInt16LE(buffer, 0)
             dataSize == readUInt32LE(buffer, 2)
             totalSize == 6 + dataSize
         IN  IF Len(buffer) < totalSize
             THEN [packets |-> packets, buffer |-> buffer]
             ELSE _processBuffer(
                    Append(packets, [type |-> packetType, size |-> dataSize,
                                     data |-> SubSeq(buffer, 7, totalSize)]),
                    SliceFrom(buffer, totalSize))

\* data.toString('ascii').includes('\n'): the decoder drops the high bit
IncludesNewline(data) == \E i \in 1..Len(data) : data[i] % 128 = 10

\* data.indexOf(0x0A), -1 when there is none
newlineIndex(data) ==
    IF \E i \in 1..Len(data) : data[i] = 10
    THEN (CHOOSE i \in 1..Len(data) :
            data[i] = 10 /\ \A j \in 1..(i - 1) : data[j] # 10) - 1
    ELSE -1

\* the chunk completes the handshake and carries more than the banner
BannerJoined(srv, data) ==
    ~srv.handshakeComplete /\ IncludesNewline(data)
        /\ newlineIndex(data) < Len(data) - 1

\* socket.on('data', ...) of _handleClient (onClientConnect unset)
ServerOnData(srv, data) ==
    IF ~srv.handshakeComplete
    THEN IF IncludesNewline(data)
         THEN IF newlineIndex(data) < Len(data) - 1
              THEN LET rest == SliceFrom(data, newlineIndex(data) + 1)
                   IN  [handshakeComplete |-> TRUE, buffer |-> rest,
                        packets |-> _processBuffer(srv.packets, rest).packets]
              ELSE [srv EXCEPT !.handshakeComplete = TRUE]
         ELSE srv
    ELSE LET r == _processBuffer(srv.packets, srv.buffer \o data)
         IN  [srv EXCEPT !.buffer = r.buffer, !.packets = r.packets]

FFrame ==
    UNCHANGED <<cfg, connected, failed, socket, queue, tickCount, socks, tasks,
                mq, crashed, now, calls, rejected, faults, ran, qh, sched, exec,
                slog, onErrors>>

\* a protocol at rest, a client socket accepted by the mock server
FInit ==
    /\ ProtocolAtRest
    /\ failed = FALSE
    /\ sched = NoScheduler
    /\ exec = NoExec
    /\ slog = NoLog

\* _internalConnect, on the server banner: this.socket.write(CLIENT_BANNER)
WriteClientBanner ==
    /\ ~sent.banner
    /\ sent' = [sent EXCEPT !.banner = TRUE, !.pending = @ \o CLIENT_BANNER]
    /\ UNCHANGED server
    /\ FFrame

\* _internalWritePacket(packet) on the connected socket:
\* buffer = this.formatter.format(packet); a non-empty buffer is written
FWritePacket ==
    \E packet \in Records :
        /\ sent.banner
        /\ Len(sent.records) < MaxRecords
        /\ sent' = [sent EXCEPT !.records = Append(@, packet),
                                !.pending = @ \o formatBytes(packet)]
        /\ UNCHANGED server
        /\ FFrame

\* the server's socket emits 'data' with the next n bytes in flight
ServerData ==
    \E n \in 1..Len(sent.pending) :
        LET data == SubSeq(sent.pending, 1, n)
        IN  /\ server' = ServerOnData(server, data)
            /\ sent' = [sent EXCEPT !.pending = SliceFrom(@, n),
                                    !.joined = @ \/ BannerJoined(server, data)]
            /\ FFrame

FNext == WriteClientBanner \/ FWritePacket \/ ServerData

FrameSpec == FInit /\ [][FNext]_vars

\* (kind, body) of the packets the server has parsed
Pairs(packets) ==
    [k \in 1..Len(packets) |-> [type |-> packets[k].type, data |-> packets[k].data]]

\* (kind, body) of the records of a known kind, in the order written
RECURSIVE Expected(_)
Expected(records) ==
    IF records = <<>> THEN <<>>
    ELSE IF compile(Head(records)) = <<>> THEN Expected(Tail(records))
    ELSE <<[type |-> Head(records).packetType, data |-> compile(Head(records))]>>
            \o Expected(Tail(records))

IsPrefix(a, b) == Len(a) <= Len(b) /\ SubSeq(b, 1, Len(a)) = a

\* every frame written reads back as kind, exact body length and body; nothing
\* is written for an unknown kind
FramesWellFormed ==
    \A k \in 1..Len(sent.records) :
        LET packet == sent.records[k]
            b == formatBytes(packet)
        IN  IF packet.packetType \notin KnownPacketTypes THEN b = <<>>
            ELSE /\ Len(b) >= 6
                 /\ readUInt16LE(b, 0) = packet.packetType
                 /\ readUInt32LE(b, 2) = Len(b) - 6
                 /\ SliceFrom(b, 6) = compile(packet)

\* the server has parsed a prefix of what was written, and all of it once
\* every byte has arrived
ParsedAsWritten ==
    /\ IsPrefix(Pairs(server.packets), Expected(sent.records))
    /\ \A k \in 1..Len(server.packets) :
            server.packets[k].size = Len(server.packets[k].data)
    /\ (sent.banner /\ sent.pending = <<>>) =>
            Pairs(server.packets) = Expected(sent.records)

\* C38: frame round trip.  Every record of a known kind is written as
\* kind (u16 LE), body length (u32 LE), body, with the length the exact byte
\* length of the body, and a record of unknown kind as no bytes; whatever the
\* chunks the bytes arrive in, the mock server's reader parses them back into
\* the same sequence of (kind, body) pairs.
C38_FrameRoundTrip == FramesWellFormed /\ ParsedAsWritten

\* the round trip for streams whose first frame byte arrives in a chunk of its
\* own, after the chunk that ended the client banner
FramesAfterBanner == (~sent.joined) => (FramesWellFormed /\ ParsedAsWritten)

\* socket s, which is not the socket the protocol refers to, emits 'close'
StaleClose(s) ==
    /\ socket # 0 /\ s # socket
    /\ socks[s].status # "closed" /\ socks'[s].status = "closed"

\* whenever connected, this.socket is a socket whose handshake completed
ConnectedSocketValid == connected => (socket # 0 /\ socks[socket].hs)

\* a 'close' of a replaced socket leaves the connection state and the reference
\* to the current socket alone
StaleCloseHarmless ==
    \A s \in Sockets :
        StaleClose(s) => (socket' = socket /\ connected' = connected)

\* C39: stale socket events are harmless.  A close or error event of a socket
\* that has been replaced neither clears connected nor nulls out this.socket,
\* and whenever connected is true this.socket is non-null and is a socket whose
\* handshake completed.
C39_StaleEventsHarmless == [](ConnectedSocketValid) /\ [][StaleCloseHarmless]_vars
====
